---- MODULE Spec2Model ----
(***************************************************************************)
(* Model of the namespace reconciler of qn-rancher-operator                *)
(* (controllers/namespace_controller.go).                                  *)
(*                                                                         *)
(* A Go string is a sequence of one-character strings, so that case        *)
(* folding, splitting and substring search are computed, not assumed.      *)
(* The API server is part of the state: the stored namespaces (with their  *)
(* resourceVersion) and the list of Project objects.  One Reconcile        *)
(* invocation is a chain of steps separated by its API calls (Get, List,   *)
(* Patch); other writers to the API server act between the steps.          *)
(***************************************************************************)
EXTENDS Integers, Sequences, FiniteSets, TLC

(***************************************************************************)
(* Bounds of the model.                                                    *)
(***************************************************************************)
\* number of writes other actors make to the namespaces and to the list of
\* projects in a run
MaxExternalWrites == 2

\* the namespace keys the work queue delivers
Keys == {"ns1"}

(***************************************************************************)
(* Strings.                                                                *)
(***************************************************************************)
UpperLetters == <<"A","B","C","D","E","F","G","H","I","J","K","L","M",
                  "N","O","P","Q","R","S","T","U","V","W","X","Y","Z">>
LowerLetters == <<"a","b","c","d","e","f","g","h","i","j","k","l","m",
                  "n","o","p","q","r","s","t","u","v","w","x","y","z">>

\* unicode.ToLower on one (ASCII) character
ToLowerChar(c) ==
    IF \E i \in 1..Len(UpperLetters) : UpperLetters[i] = c
    THEN LowerLetters[CHOOSE i \in 1..Len(UpperLetters) : UpperLetters[i] = c]
    ELSE c

\* strings.ToLower
ToLower(s) == [i \in 1..Len(s) |-> ToLowerChar(s[i])]

\* strings.EqualFold: equality under simple case folding
EqualFold(s, t) ==
    /\ Len(s) = Len(t)
    /\ \A i \in 1..Len(s) : ToLowerChar(s[i]) = ToLowerChar(t[i])

\* strings.Contains
Contains(s, substr) ==
    \E i \in 0..(Len(s) - Len(substr)) :
        \A j \in 1..Len(substr) : s[i + j] = substr[j]

\* strings.Split(s, sep) for a one-character separator: the pieces between
\* the separators, Count(sep)+1 of them
RECURSIVE Split(_, _)
Split(s, sep) ==
    IF \A i \in 1..Len(s) : s[i] # sep
    THEN <<s>>
    ELSE LET i == CHOOSE i \in 1..Len(s) :
                     /\ s[i] = sep
                     /\ \A j \in 1..(i - 1) : s[j] # sep
         IN  <<SubSeq(s, 1, i - 1)>> \o Split(SubSeq(s, i + 1, Len(s)), sep)

(***************************************************************************)
(* Constants of the controller.                                            *)
(***************************************************************************)
rancherProjectIDLabel      == "field.cattle.io/projectId"
rancherClusterIDLabel      == "field.cattle.io/clusterId"
rancherProjectIDAnnotation == "field.cattle.io/projectId"
appOwnerLabel              == "appOwner"

\* the cluster id of the management cluster, "local"
localClusterID == <<"l","o","c","a","l">>

(***************************************************************************)
(* Maps (Go map[string]string): functions on a finite set of keys.         *)
(***************************************************************************)
EmptyMap == [x \in {} |-> <<>>]

MapSet(m, k, v) == [x \in (DOMAIN m) \cup {k} |-> IF x = k THEN v ELSE m[x]]

MapDel(m, k) == [x \in (DOMAIN m) \ {k} |-> m[x]]

\* m[k] with the comma-ok idiom: the value, "" when the key is absent
MapGet(m, k) == IF k \in DOMAIN m THEN m[k] ELSE <<>>

(***************************************************************************)
(* The strings the model draws its inputs from.                            *)
(***************************************************************************)
sEmpty == <<>>
sDevOps == <<"D","e","v">>
sdevops == <<"d","e","v">>
sDEVOPS == <<"D","E","V">>
sOps    == <<"O","p","s">>
sGhost  == <<"G","h">>
sTeamA  == <<"t","a">>
sTeamB  == <<"t","b">>

\* project identifiers (metadata.name of a Project)
pidC1P2 == <<"c","1",":","p","2">>
pidC2P3 == <<"c","2",":","p","3">>
pidP5   == <<"p","5">>

\* cluster ids
cidC1 == <<"c","1">>
cidC9 == <<"c","9">>

\* keys of labels and annotations of a Project
keyOwner   == <<"o","w","n">>
keyDisplay == <<"D","i","s","p","l","a","y">>

(***************************************************************************)
(* Objects of the API server.                                              *)
(***************************************************************************)
\* corev1.Namespace: labels, annotations and metadata.resourceVersion;
\* exists = FALSE stands for "no such namespace" (Get answers NotFound)
Namespace(labels, annotations, rv) ==
    [exists |-> TRUE, labels |-> labels, annotations |-> annotations, rv |-> rv]

NoNamespace(rv) ==
    [exists |-> FALSE, labels |-> EmptyMap, annotations |-> EmptyMap, rv |-> rv]

\* a management.cattle.io/v3 Project as the controller reads it:
\* metadata.namespace, metadata.name, spec.displayName (found or not),
\* labels, annotations
Project(ns, name, hasDisplayName, displayName, labels, annotations) ==
    [ns |-> ns, name |-> name,
     hasDisplayName |-> hasDisplayName, displayName |-> displayName,
     labels |-> labels, annotations |-> annotations]

(***************************************************************************)
(* Project resolution.                                                     *)
(***************************************************************************)
\* the key test of the label loop (lines 329-330)
LabelKeyIsNameField(key) ==
    \/ Contains(ToLower(key), <<"n","a","m","e">>)
    \/ Contains(ToLower(key), <<"p","r","o","j","e","c","t">>)

\* the key test of the annotation loop (lines 343-344)
AnnotationKeyIsNameField(key) ==
    \/ Contains(ToLower(key), <<"n","a","m","e">>)
    \/ Contains(ToLower(key), <<"d","i","s","p","l","a","y">>)

\* projectMatches comparing with == instead of strings.EqualFold
projectMatchesExact(project, projectName) ==
    \/ /\ project.hasDisplayName
       /\ project.displayName = projectName
    \/ \E key \in DOMAIN project.labels : project.labels[key] = projectName
    \/ \E key \in DOMAIN project.annotations :
          project.annotations[key] = projectName

\* projectMatches that looks only at the labels and annotations whose key
\* suggests a name field
projectMatchesNameKeys(project, projectName) ==
    \/ /\ project.hasDisplayName
       /\ EqualFold(project.displayName, projectName)
    \/ \E key \in DOMAIN project.labels :
          /\ LabelKeyIsNameField(key)
          /\ EqualFold(project.labels[key], projectName)
    \/ \E key \in DOMAIN project.annotations :
          /\ AnnotationKeyIsNameField(key)
          /\ EqualFold(project.annotations[key], projectName)

\* projectMatches: displayName, then any label value, then any annotation value
projectMatches(project, projectName) ==
    \/ /\ project.hasDisplayName
       /\ EqualFold(project.displayName, projectName)
    \/ \E key \in DOMAIN project.labels :
          \/ EqualFold(project.labels[key], projectName)
          \/ /\ LabelKeyIsNameField(key)
             /\ EqualFold(project.labels[key], projectName)
    \/ \E key \in DOMAIN project.annotations :
          \/ EqualFold(project.annotations[key], projectName)
          \/ /\ AnnotationKeyIsNameField(key)
             /\ EqualFold(project.annotations[key], projectName)

\* findProjectIndex that keeps the last item that matches
findProjectIndexLast(items, projectName) ==
    IF \E i \in 1..Len(items) : projectMatches(items[i], projectName)
    THEN CHOOSE i \in 1..Len(items) :
            /\ projectMatches(items[i], projectName)
            /\ \A j \in (i + 1)..Len(items) : ~projectMatches(items[j], projectName)
    ELSE 0

\* findProjectIndex that is left on the last item when none matches
findProjectIndexFallThrough(items, projectName) ==
    IF \E i \in 1..Len(items) : projectMatches(items[i], projectName)
    THEN CHOOSE i \in 1..Len(items) :
            /\ projectMatches(items[i], projectName)
            /\ \A j \in 1..(i - 1) : ~projectMatches(items[j], projectName)
    ELSE Len(items)

\* the loop of findProjectByName over the listed items: the index of the
\* first item that matches, 0 when none does (the function returns nil, nil)
findProjectIndex(items, projectName) ==
    IF \E i \in 1..Len(items) : projectMatches(items[i], projectName)
    THEN CHOOSE i \in 1..Len(items) :
            /\ projectMatches(items[i], projectName)
            /\ \A j \in 1..(i - 1) : ~projectMatches(items[j], projectName)
    ELSE 0

\* extractClusterID with len(parts) == 2 in place of len(parts) >= 2
extractClusterIDTwoParts(projectID) ==
    IF Len(Split(projectID, ":")) = 2 THEN Split(projectID, ":")[1] ELSE <<>>

\* extractClusterID: the piece before the first ":" when there is one
extractClusterID(projectID) ==
    LET parts == Split(projectID, ":")
    IN  IF Len(parts) >= 2 THEN parts[1] ELSE <<>>

(***************************************************************************)
(* The patch.                                                              *)
(***************************************************************************)
\* the in-memory changes updateNamespaceWithProject makes to its copy of the
\* namespace (lines 370-383)
WithProject(obj, pid, cid) ==
    [obj EXCEPT
        !.labels =
            LET l1 == MapSet(obj.labels, rancherProjectIDLabel, pid)
            IN  IF cid # <<>>
                THEN MapSet(l1, rancherClusterIDLabel, cid)
                ELSE l1,
        !.annotations =
            MapSet(obj.annotations, rancherProjectIDAnnotation, pid)]

\* the JSON merge patch of one map: the keys whose value was added or
\* changed, and the keys that were removed (sent as null)
MapDiff(original, modified) ==
    [set |-> [k \in {x \in DOMAIN modified :
                        x \notin DOMAIN original \/ original[x] # modified[x]}
                 |-> modified[k]],
     del |-> (DOMAIN original) \ (DOMAIN modified)]

\* MergeFrom that sends every label and annotation of the modified object
MergeFromWhole(original, modified) ==
    [labels      |-> MapDiff(EmptyMap, modified.labels),
     annotations |-> MapDiff(EmptyMap, modified.annotations)]

\* client.MergeFrom(original).Data(modified): the difference of the two
\* objects; the resourceVersion is the same in both and is not part of it
MergeFrom(original, modified) ==
    [labels      |-> MapDiff(original.labels, modified.labels),
     annotations |-> MapDiff(original.annotations, modified.annotations)]

\* the API server applying a merge patch to one stored map (RFC 7386)
MapApply(m, d) ==
    [k \in ((DOMAIN m) \ d.del) \cup (DOMAIN d.set) |->
        IF k \in DOMAIN d.set THEN d.set[k] ELSE m[k]]

\* the API server applying the patch to the stored namespace; the
\* resourceVersion moves only when the object changed
ApplyMergePatch(obj, patch) ==
    LET labels      == MapApply(obj.labels, patch.labels)
        annotations == MapApply(obj.annotations, patch.annotations)
        changed     == labels # obj.labels \/ annotations # obj.annotations
    IN  [obj EXCEPT !.labels = labels,
                    !.annotations = annotations,
                    !.rv = IF changed THEN obj.rv + 1 ELSE obj.rv]

(***************************************************************************)
(* State.                                                                  *)
(***************************************************************************)
VARIABLES
    stored,           \* API server: key -> the stored namespace
    projects,         \* API server: the Project objects, in list order
    pending,          \* work queue: key -> the key is queued
    pc,               \* key -> where the running Reconcile of the key stands
    clusterID,        \* Reconcile's local clusterID
    namespace,        \* Reconcile's local namespace object
    projectID,        \* Reconcile's local projectID
    projectClusterID, \* Reconcile's local projectClusterID
    patch,            \* the merge patch updateNamespaceWithProject sends
    result,           \* what the last Reconcile of the key returned
    calls,            \* history: the API calls of the invocation, in order
    fetched,          \* history: the namespace as the Get returned it
    listed,           \* history: the projects as the List returned them
    prePatch,         \* history: the stored namespace just before the Patch
    postPatch,        \* history: the stored namespace just after the Patch
    settled,          \* history: "patched" after a successful patch, "later"
                      \* in invocations started after it, "no" once anything
                      \* else changed the namespace or the projects
    extBudget,        \* writes of other actors still to come
    clusterClients,   \* the reconciler's map: cluster id -> cluster client
    clusterMutex,     \* the RWMutex: the writer flag and the reading keys
    lastClusterRefresh, \* the reconciler's timestamp: 0 the zero time, n
                      \* the time of the swap of the n-th refresh
    clusters,         \* management API server: the cluster objects, in order
    mgrHost,          \* the Host of the management cluster's rest.Config
    tick,             \* the ticker's channel holds a tick
    rpc,              \* where the refresh goroutine stands
    clusterList,      \* doRefreshClusterClients' local clusterList.Items
    idx,              \* position of its loop over the items
    newClusterClients, \* its local newClusterClients
    refreshNo,        \* history: refreshes started so far
    previous,         \* history: map and timestamp when the refresh started
    listOutcome,      \* history: how the List of the latest refresh ended
    failed,           \* history: ids whose client construction failed in it
    clusterBudget,    \* changes of cluster objects still to come
    call,             \* a call of a pure function: its inputs and result
    cancelled,        \* the root context of the manager is cancelled
    initial           \* history: key -> the namespace the key started with

\* the registry of cluster clients, its refresh goroutine and the cluster
\* objects it lists (all but the mutex, which Reconcile takes too)
registry == <<clusterClients, lastClusterRefresh, clusters, mgrHost,
              tick, rpc, clusterList, idx, newClusterClients, refreshNo,
              previous, listOutcome, failed, clusterBudget>>

\* the namespaces, the projects, the work queue and Reconcile
reconciler == <<stored, projects, pending, pc, clusterID, namespace,
                projectID, projectClusterID, patch, result, calls, fetched,
                listed, prePatch, postPatch, settled, extBudget, initial>>

vars == <<reconciler, clusterMutex, registry, call, cancelled>>

locals == <<clusterID, namespace, projectID, projectClusterID, patch>>

history == <<calls, fetched, listed, prePatch, postPatch>>

EmptyPatch == MergeFrom(NoNamespace(0), NoNamespace(0))

\* ctrl.Result{} with the error returned beside it
NoResult == [returned |-> FALSE, err |-> FALSE, Requeue |-> FALSE]

Returned(err) == [returned |-> TRUE, err |-> err, Requeue |-> FALSE]

Call(op, outcome) == [op |-> op, outcome |-> outcome]

(***************************************************************************)
(* Initial states: one namespace per key as the informer first lists it,   *)
(* and the projects of the management cluster.                             *)
(***************************************************************************)
L1(k, v) == MapSet(EmptyMap, k, v)

L2(k1, v1, k2, v2) == MapSet(L1(k1, v1), k2, v2)

L3(k1, v1, k2, v2, k3, v3) == MapSet(L2(k1, v1, k2, v2), k3, v3)

InitNamespaces ==
    { Namespace(L1(appOwnerLabel, sDevOps), EmptyMap, 1),
      Namespace(L3(appOwnerLabel, sDEVOPS, "team", sTeamA,
                   rancherClusterIDLabel, cidC1),
                L2(rancherProjectIDAnnotation, pidC1P2, "note", sTeamA), 1),
      Namespace(L2(appOwnerLabel, sGhost, rancherProjectIDLabel, sEmpty),
                L1(rancherProjectIDAnnotation, pidC2P3), 1),
      Namespace(L1("team", sTeamA), EmptyMap, 1),
      Namespace(L1(appOwnerLabel, sEmpty), EmptyMap, 1),
      Namespace(L2(appOwnerLabel, sOps, rancherProjectIDLabel, pidC2P3),
                EmptyMap, 1),
      Namespace(L1(rancherProjectIDLabel, pidC2P3), EmptyMap, 1),
      NoNamespace(1) }

prjDevOps == Project(cidC1, pidC1P2, TRUE, sdevops, EmptyMap, EmptyMap)

prjByLabel == Project(cidC1, pidP5, FALSE, sEmpty, L1(keyOwner, sDevOps), EmptyMap)

prjByAnnotation ==
    Project(<<"c","2">>, pidC2P3, TRUE, sOps, EmptyMap, L1(keyDisplay, sDEVOPS))

InitProjects ==
    { <<>>,
      <<prjDevOps>>,
      <<prjByLabel, prjDevOps>>,
      <<prjByAnnotation, prjDevOps>> }

\* lines 398-400: the registry as SetupWithManager makes it, the mutex free
RegistryNew ==
    /\ clusterClients = EmptyMap
    /\ lastClusterRefresh = 0
    /\ clusterMutex = [writer |-> FALSE, readers |-> {}]
    /\ cancelled = FALSE
    /\ newClusterClients = EmptyMap
    /\ clusterList = <<>>
    /\ idx = 0
    /\ tick = FALSE
    /\ refreshNo = 0
    /\ previous = [map |-> EmptyMap, time |-> 0]
    /\ listOutcome = "none"
    /\ failed = {}

\* the registry with no cluster object to list and its goroutine left out
RegistryOff ==
    /\ RegistryNew
    /\ rpc = "off"
    /\ clusters = <<>>
    /\ mgrHost = <<>>
    /\ clusterBudget = 0

\* no call of a pure function
NoCall == [fn |-> "none"]

\* every key queued, no Reconcile running
\* a reconciler that has run no invocation, every key of K queued
ReconcilerStart(K) ==
    /\ pending = [k \in K |-> TRUE]
    /\ pc = [k \in K |-> "idle"]
    /\ clusterID = [k \in K |-> sEmpty]
    /\ namespace = [k \in K |-> NoNamespace(0)]
    /\ projectID = [k \in K |-> sEmpty]
    /\ projectClusterID = [k \in K |-> sEmpty]
    /\ patch = [k \in K |-> EmptyPatch]
    /\ result = [k \in K |-> NoResult]
    /\ calls = [k \in K |-> <<>>]
    /\ fetched = [k \in K |-> NoNamespace(0)]
    /\ listed = [k \in K |-> <<>>]
    /\ prePatch = [k \in K |-> NoNamespace(0)]
    /\ postPatch = [k \in K |-> NoNamespace(0)]
    /\ settled = [k \in K |-> "no"]
    /\ initial = stored

ReconcilerNew == ReconcilerStart(Keys)

Init ==
    /\ stored \in [Keys -> InitNamespaces]
    /\ projects \in InitProjects
    /\ ReconcilerNew
    /\ extBudget = MaxExternalWrites
    /\ RegistryOff
    /\ call = NoCall

\* getClusterClient that picks the cluster of the namespace among the
\* clusters of the registry
getClusterClientFromRegistry(k) ==
    IF <<"c", "2">> \in DOMAIN clusterClients THEN <<"c", "2">>
    ELSE IF DOMAIN clusterClients # {}
    THEN CHOOSE id \in DOMAIN clusterClients : TRUE
    ELSE localClusterID

(***************************************************************************)
(* Reconcile, one action per stretch between two API calls.                *)
(***************************************************************************)
\* getClusterClient: the cluster id and the client; it reads nothing of the
\* request and always answers "local" with the management client
getClusterClient(k) == localClusterID

\* HasAppOwner without the test for the empty string
HasAppOwnerKeyOnly(obj) == appOwnerLabel \in DOMAIN obj.labels

\* line 84-85: the appOwner label exists and is not empty
HasAppOwner(obj) ==
    /\ appOwnerLabel \in DOMAIN obj.labels
    /\ obj.labels[appOwnerLabel] # <<>>

\* AlreadyAssigned with the comparison to "" inverted
AlreadyAssignedInverted(obj) ==
    /\ rancherProjectIDLabel \in DOMAIN obj.labels
    /\ obj.labels[rancherProjectIDLabel] = <<>>

\* AlreadyAssigned reading the annotation instead of the label
AlreadyAssignedByAnnotation(obj) ==
    /\ rancherProjectIDAnnotation \in DOMAIN obj.annotations
    /\ obj.annotations[rancherProjectIDAnnotation] # <<>>

\* line 91: the projectId label exists and is not empty
AlreadyAssigned(obj) ==
    /\ rancherProjectIDLabel \in DOMAIN obj.labels
    /\ obj.labels[rancherProjectIDLabel] # <<>>

\* lines 290-294: the projects the List call asks for, all of them unless a
\* cluster id other than "local" scopes the call to that namespace
ListedProjects(items, cid) ==
    IF cid # <<>> /\ cid # localClusterID
    THEN SelectSeq(items, LAMBDA p : p.ns = cid)
    ELSE items

\* line 114 alone: no fall back to the detected cluster id
EffectiveClusterIDNoFallback(pid, cid) == extractClusterID(pid)

\* lines 116-119: the project's cluster id, the detected one when it is empty
EffectiveClusterID(pid, cid) ==
    IF extractClusterID(pid) = <<>> THEN cid ELSE extractClusterID(pid)

\* Reconcile returns: the result is recorded, the key leaves the worker and
\* the work queue requeues it when an error was returned
Return(k, err, event) ==
    /\ result' = [result EXCEPT ![k] = Returned(err)]
    /\ pc' = [pc EXCEPT ![k] = "idle"]
    /\ pending' = [pending EXCEPT ![k] = @ \/ err \/ event]

\* the work queue hands a queued key to Reconcile, which enters
\* getClusterClient and takes the read lock (lines 60-65 and 140-141)
Start(k) ==
    /\ pc[k] = "idle"
    /\ pending[k]
    /\ ~clusterMutex.writer
    /\ clusterMutex' = [clusterMutex EXCEPT !.readers = @ \cup {k}]
    /\ pending' = [pending EXCEPT ![k] = FALSE]
    /\ pc' = [pc EXCEPT ![k] = "detect"]
    /\ clusterID' = [clusterID EXCEPT ![k] = sEmpty]
    /\ namespace' = [namespace EXCEPT ![k] = NoNamespace(0)]
    /\ projectID' = [projectID EXCEPT ![k] = sEmpty]
    /\ projectClusterID' = [projectClusterID EXCEPT ![k] = sEmpty]
    /\ patch' = [patch EXCEPT ![k] = EmptyPatch]
    /\ result' = [result EXCEPT ![k] = NoResult]
    /\ calls' = [calls EXCEPT ![k] = <<>>]
    /\ fetched' = [fetched EXCEPT ![k] = NoNamespace(0)]
    /\ listed' = [listed EXCEPT ![k] = <<>>]
    /\ prePatch' = [prePatch EXCEPT ![k] = NoNamespace(0)]
    /\ postPatch' = [postPatch EXCEPT ![k] = NoNamespace(0)]
    /\ settled' = [settled EXCEPT ![k] = IF @ = "no" THEN "no" ELSE "later"]
    /\ UNCHANGED <<registry, call, cancelled, initial>>
    /\ UNCHANGED <<stored, projects, extBudget>>

\* lines 142-147 with the read lock kept: no deferred RUnlock
GetClusterClientReturnLocked(k) ==
    /\ pc[k] = "detect"
    /\ clusterID' = [clusterID EXCEPT ![k] = getClusterClient(k)]
    /\ pc' = [pc EXCEPT ![k] = "get"]
    /\ UNCHANGED <<clusterMutex, registry, call, cancelled, initial>>
    /\ UNCHANGED <<stored, projects, pending, namespace, projectID,
                   projectClusterID, patch, result, history, settled,
                   extBudget>>

\* lines 141-147 and 65-70: getClusterClient returns "local" and the
\* management client, and the deferred RUnlock releases the read lock
GetClusterClientReturn(k) ==
    /\ pc[k] = "detect"
    /\ clusterID' = [clusterID EXCEPT ![k] = getClusterClient(k)]
    /\ clusterMutex' = [clusterMutex EXCEPT !.readers = @ \ {k}]
    /\ pc' = [pc EXCEPT ![k] = "get"]
    /\ UNCHANGED <<registry, call, cancelled, initial>>
    /\ UNCHANGED <<stored, projects, pending, namespace, projectID,
                   projectClusterID, patch, result, history, settled,
                   extBudget>>

\* lines 72-96: the Get succeeds, then the two label checks
GetOk(k) ==
    /\ pc[k] = "get"
    /\ stored[k].exists
    /\ calls' = [calls EXCEPT ![k] = Append(@, Call("Get", "ok"))]
    /\ fetched' = [fetched EXCEPT ![k] = stored[k]]
    /\ namespace' = [namespace EXCEPT ![k] = stored[k]]
    /\ IF ~HasAppOwner(stored[k]) \/ AlreadyAssigned(stored[k])
       THEN Return(k, FALSE, FALSE)
       ELSE /\ pc' = [pc EXCEPT ![k] = "list"]
            /\ UNCHANGED <<result, pending>>
    /\ UNCHANGED <<clusterMutex, registry, call, cancelled, initial>>
    /\ UNCHANGED <<stored, projects, clusterID, projectID, projectClusterID,
                   patch, listed, prePatch, postPatch, settled, extBudget>>

\* lines 75-80 without the not-found test: every Get error is returned
GetNotFoundAsError(k) ==
    /\ pc[k] = "get"
    /\ ~stored[k].exists
    /\ calls' = [calls EXCEPT ![k] = Append(@, Call("Get", "notfound"))]
    /\ Return(k, TRUE, FALSE)
    /\ UNCHANGED <<clusterMutex, registry, call, cancelled, initial>>
    /\ UNCHANGED <<stored, projects, locals, fetched, listed, prePatch,
                   postPatch, settled, extBudget>>

\* lines 74-78: the namespace is gone
GetNotFound(k) ==
    /\ pc[k] = "get"
    /\ ~stored[k].exists
    /\ calls' = [calls EXCEPT ![k] = Append(@, Call("Get", "notfound"))]
    /\ Return(k, FALSE, FALSE)
    /\ UNCHANGED <<clusterMutex, registry, call, cancelled, initial>>
    /\ UNCHANGED <<stored, projects, locals, fetched, listed, prePatch,
                   postPatch, settled, extBudget>>

\* lines 74-80 with one retry: a first failed Get is issued again
GetErrorRetried(k) ==
    /\ pc[k] = "get"
    /\ calls' = [calls EXCEPT ![k] = Append(@, Call("Get", "error"))]
    /\ IF calls[k] = <<>>
       THEN UNCHANGED <<pc, result, pending>>
       ELSE Return(k, TRUE, FALSE)
    /\ UNCHANGED <<clusterMutex, registry, call, cancelled, initial>>
    /\ UNCHANGED <<stored, projects, locals, fetched, listed, prePatch,
                   postPatch, settled, extBudget>>

\* lines 79-80: the Get fails otherwise
GetError(k) ==
    /\ pc[k] = "get"
    /\ calls' = [calls EXCEPT ![k] = Append(@, Call("Get", "error"))]
    /\ Return(k, TRUE, FALSE)
    /\ UNCHANGED <<clusterMutex, registry, call, cancelled, initial>>
    /\ UNCHANGED <<stored, projects, locals, fetched, listed, prePatch,
                   postPatch, settled, extBudget>>

\* lines 112-124 and 364-383: a project was found; the ids are derived and
\* the patch is built, unless the project id is empty
AssignProject(k, pid, cid, obj) ==
    /\ projectID' = [projectID EXCEPT ![k] = pid]
    /\ projectClusterID' = [projectClusterID EXCEPT ![k] = cid]
    /\ IF pid = <<>>
       THEN /\ Return(k, FALSE, FALSE)
            /\ UNCHANGED <<namespace, patch>>
       ELSE /\ namespace' = [namespace EXCEPT ![k] = obj]
            /\ \E p \in {MergeFrom(namespace[k], obj)} :
                  patch' = [patch EXCEPT ![k] = p]
            /\ pc' = [pc EXCEPT ![k] = "patch"]
            /\ UNCHANGED <<result, pending>>

\* ListOk with the creation path in place of the skip of lines 106-110: on a
\* no-match a project named after the owner is created
ListOkCreates(k) ==
    /\ pc[k] = "list"
    /\ calls' = [calls EXCEPT ![k] = Append(@, Call("List", "ok"))]
    /\ \E items \in {ListedProjects(projects, clusterID[k])} :
       \E i \in {findProjectIndex(items, namespace[k].labels[appOwnerLabel])} :
          /\ listed' = [listed EXCEPT ![k] = items]
          /\ IF i = 0
             THEN /\ Return(k, FALSE, FALSE)
                  /\ projects' =
                        Append(projects,
                               Project(clusterID[k], <<"p", "-", "n">>, TRUE,
                                       namespace[k].labels[appOwnerLabel],
                                       EmptyMap, EmptyMap))
                  /\ UNCHANGED <<namespace, projectID, projectClusterID, patch>>
             ELSE /\ projects' = projects
                  /\ \E pid \in {items[i].name} :
                     \E cid \in {EffectiveClusterID(pid, clusterID[k])} :
                     \E obj \in {WithProject(namespace[k], pid, cid)} :
                         AssignProject(k, pid, cid, obj)
    /\ UNCHANGED <<clusterMutex, registry, call, cancelled, initial>>
    /\ UNCHANGED <<stored, clusterID, fetched, prePatch, postPatch,
                   settled, extBudget>>

\* lines 100-124: the List succeeds and the first match is taken
ListOk(k) ==
    /\ pc[k] = "list"
    /\ calls' = [calls EXCEPT ![k] = Append(@, Call("List", "ok"))]
    /\ \E items \in {ListedProjects(projects, clusterID[k])} :
       \E i \in {findProjectIndex(items, namespace[k].labels[appOwnerLabel])} :
          /\ listed' = [listed EXCEPT ![k] = items]
          /\ IF i = 0
             THEN /\ Return(k, FALSE, FALSE)
                  /\ UNCHANGED <<namespace, projectID, projectClusterID, patch>>
             ELSE \E pid \in {items[i].name} :
                  \E cid \in {EffectiveClusterID(pid, clusterID[k])} :
                  \E obj \in {WithProject(namespace[k], pid, cid)} :
                      AssignProject(k, pid, cid, obj)
    /\ UNCHANGED <<clusterMutex, registry, call, cancelled, initial>>
    /\ UNCHANGED <<stored, projects, clusterID, fetched, prePatch, postPatch,
                   settled, extBudget>>

\* ListError that logs the failure and returns nil
ListErrorSwallowed(k) ==
    /\ pc[k] = "list"
    /\ calls' = [calls EXCEPT ![k] = Append(@, Call("List", "error"))]
    /\ Return(k, FALSE, FALSE)
    /\ UNCHANGED <<clusterMutex, registry, call, cancelled, initial>>
    /\ UNCHANGED <<stored, projects, locals, fetched, listed, prePatch,
                   postPatch, settled, extBudget>>

\* lines 296-299 and 101-104: the List fails
ListError(k) ==
    /\ pc[k] = "list"
    /\ calls' = [calls EXCEPT ![k] = Append(@, Call("List", "error"))]
    /\ Return(k, TRUE, FALSE)
    /\ UNCHANGED <<clusterMutex, registry, call, cancelled, initial>>
    /\ UNCHANGED <<stored, projects, locals, fetched, listed, prePatch,
                   postPatch, settled, extBudget>>

\* lines 386-389 with the error of a later step returned after the write
PatchOkThenError(k) ==
    /\ pc[k] = "patch"
    /\ stored[k].exists
    /\ calls' = [calls EXCEPT ![k] = Append(@, Call("Patch", "error"))]
    /\ \E new \in {ApplyMergePatch(stored[k], patch[k])} :
           /\ stored' = [stored EXCEPT ![k] = new]
           /\ namespace' = [namespace EXCEPT ![k] = new]
           /\ prePatch' = [prePatch EXCEPT ![k] = stored[k]]
           /\ postPatch' = [postPatch EXCEPT ![k] = new]
           /\ Return(k, TRUE, new # stored[k])
    /\ settled' = [settled EXCEPT ![k] = "no"]
    /\ UNCHANGED <<clusterMutex, registry, call, cancelled, initial>>
    /\ UNCHANGED <<projects, clusterID, projectID, projectClusterID, patch,
                   fetched, listed, extBudget>>

\* PatchOk sent under the name of any queued key, not of req.Name
PatchOkAnyKey(k) ==
    /\ pc[k] = "patch"
    /\ \E j \in DOMAIN stored :
          /\ stored[j].exists
          /\ \E new \in {ApplyMergePatch(stored[j], patch[k])} :
               /\ stored' = [stored EXCEPT ![j] = new]
               /\ namespace' = [namespace EXCEPT ![k] = new]
               /\ prePatch' = [prePatch EXCEPT ![k] = stored[j]]
               /\ postPatch' = [postPatch EXCEPT ![k] = new]
               /\ Return(k, FALSE, new # stored[j])
    /\ calls' = [calls EXCEPT ![k] = Append(@, Call("Patch", "ok"))]
    /\ settled' = [settled EXCEPT ![k] = "patched"]
    /\ UNCHANGED <<clusterMutex, registry, call, cancelled, initial>>
    /\ UNCHANGED <<projects, clusterID, projectID, projectClusterID, patch,
                   fetched, listed, extBudget>>

\* lines 386 and 132-133: the API server applies the patch
PatchOk(k) ==
    /\ pc[k] = "patch"
    /\ stored[k].exists
    /\ calls' = [calls EXCEPT ![k] = Append(@, Call("Patch", "ok"))]
    /\ \E new \in {ApplyMergePatch(stored[k], patch[k])} :
           /\ stored' = [stored EXCEPT ![k] = new]
           /\ namespace' = [namespace EXCEPT ![k] = new]
           /\ prePatch' = [prePatch EXCEPT ![k] = stored[k]]
           /\ postPatch' = [postPatch EXCEPT ![k] = new]
           /\ Return(k, FALSE, new # stored[k])
    /\ settled' = [settled EXCEPT ![k] = "patched"]
    /\ UNCHANGED <<clusterMutex, registry, call, cancelled, initial>>
    /\ UNCHANGED <<projects, clusterID, projectID, projectClusterID, patch,
                   fetched, listed, extBudget>>

\* lines 386-389 and 127-130: the Patch fails (the namespace is gone, or the
\* call fails otherwise); nothing is stored
PatchError(k) ==
    /\ pc[k] = "patch"
    /\ calls' = [calls EXCEPT ![k] =
                    Append(@, Call("Patch", IF stored[k].exists THEN "error"
                                            ELSE "notfound"))]
    /\ prePatch' = [prePatch EXCEPT ![k] = stored[k]]
    /\ postPatch' = [postPatch EXCEPT ![k] = stored[k]]
    /\ Return(k, TRUE, FALSE)
    /\ UNCHANGED <<clusterMutex, registry, call, cancelled, initial>>
    /\ UNCHANGED <<stored, projects, locals, fetched, listed, settled,
                   extBudget>>

(***************************************************************************)
(* The other actors of the API server.  Every write to a namespace moves   *)
(* its resourceVersion and makes the informer queue the key.               *)
(***************************************************************************)
ExtLabelWrites ==
    { <<rancherProjectIDLabel, pidC2P3>>,
      <<rancherClusterIDLabel, cidC9>>,
      <<appOwnerLabel, sdevops>>,
      <<"team", sTeamB>> }

ExtLabelRemovals == { rancherProjectIDLabel }

ExtAnnotationWrites ==
    { <<rancherProjectIDAnnotation, pidC2P3>>,
      <<"note", sTeamB>> }

ExtProjects == { prjDevOps, prjByLabel }

\* another actor replaces the stored namespace of k by obj
ExtWrite(k, obj) ==
    /\ extBudget > 0
    /\ extBudget' = extBudget - 1
    /\ stored' = [stored EXCEPT ![k] = [obj EXCEPT !.rv = stored[k].rv + 1]]
    /\ pending' = [pending EXCEPT ![k] = TRUE]
    /\ settled' = [settled EXCEPT ![k] = "no"]
    /\ UNCHANGED <<clusterMutex, registry, call, cancelled, initial>>
    /\ UNCHANGED <<projects, pc, locals, result, history>>

ExtSetLabel(k) ==
    \E w \in ExtLabelWrites :
        /\ stored[k].exists
        /\ MapGet(stored[k].labels, w[1]) # w[2] \/ w[1] \notin DOMAIN stored[k].labels
        /\ ExtWrite(k, [stored[k] EXCEPT !.labels = MapSet(@, w[1], w[2])])

ExtRemoveLabel(k) ==
    \E key \in ExtLabelRemovals :
        /\ stored[k].exists
        /\ key \in DOMAIN stored[k].labels
        /\ ExtWrite(k, [stored[k] EXCEPT !.labels = MapDel(@, key)])

ExtSetAnnotation(k) ==
    \E w \in ExtAnnotationWrites :
        /\ stored[k].exists
        /\ MapGet(stored[k].annotations, w[1]) # w[2]
        /\ ExtWrite(k, [stored[k] EXCEPT !.annotations = MapSet(@, w[1], w[2])])

ExtDelete(k) ==
    /\ stored[k].exists
    /\ ExtWrite(k, NoNamespace(0))

ExtCreate(k) ==
    /\ ~stored[k].exists
    /\ ExtWrite(k, Namespace(L1(appOwnerLabel, sDevOps), EmptyMap, 0))

\* the project list changes; the controller watches namespaces only, so no
\* key is queued
ExtProjectChange(items) ==
    /\ extBudget > 0
    /\ extBudget' = extBudget - 1
    /\ projects' = items
    /\ settled' = [k \in Keys |-> "no"]
    /\ UNCHANGED <<clusterMutex, registry, call, cancelled, initial>>
    /\ UNCHANGED <<stored, pending, pc, locals, result, history>>

ExtAddProject ==
    \E p \in ExtProjects :
        /\ \A i \in 1..Len(projects) : projects[i] # p
        /\ ExtProjectChange(Append(projects, p))

ExtRemoveProject ==
    \E i \in 1..Len(projects) :
        ExtProjectChange(SubSeq(projects, 1, i - 1) \o
                         SubSeq(projects, i + 1, Len(projects)))

(***************************************************************************)
(* The registry of cluster clients: the cluster objects of the management  *)
(* API server, the readiness test and the construction of a client.        *)
(***************************************************************************)
\* refreshes after the initial one are started by ticks; ticks to come
MaxTicks == 1

\* changes of cluster objects by other actors
MaxClusterChanges == 1

cidC2 == <<"c", "2">>

\* an entry of status.conditions; isMap is FALSE for an entry that is no
\* map[string]interface{}
Condition(isMap, type, status) ==
    [isMap |-> isMap, type |-> type, status |-> status]

\* a clusters.management.cattle.io object: hasStatus when .status is a map,
\* hasConditions when .status.conditions is a list
Cluster(name, hasStatus, hasConditions, conditions) ==
    [name |-> name, hasStatus |-> hasStatus, hasConditions |-> hasConditions,
     conditions |-> conditions]

condReady == Condition(TRUE, "Ready", "True")
condNotReady == Condition(TRUE, "Ready", "False")
condOther == Condition(TRUE, "Provisioned", "True")
condNoMap == Condition(FALSE, "Ready", "True")

ReadyCluster(name) == Cluster(name, TRUE, TRUE, <<condOther, condReady>>)

NotReadyCluster(name) ==
    Cluster(name, TRUE, TRUE, <<condNotReady, condOther>>)

\* lines 211-221 with the type of the condition ignored
IsReadyAnyType(cluster) ==
    \E i \in 1..Len(cluster.conditions) :
        /\ cluster.conditions[i].isMap
        /\ cluster.conditions[i].status = "True"

\* lines 211-221: some condition has type "Ready" and status "True"
IsReady(cluster) ==
    \E i \in 1..Len(cluster.conditions) :
        /\ cluster.conditions[i].isMap
        /\ cluster.conditions[i].type = "Ready"
        /\ cluster.conditions[i].status = "True"

\* lines 193-226: the loop moves on without constructing a client
Skipped(cluster) ==
    \/ cluster.name = localClusterID
    \/ ~cluster.hasStatus
    \/ ~cluster.hasConditions
    \/ ~IsReady(cluster)

\* "/k8s/clusters/" (lines 259-261)
proxyPath ==
    <<"/", "k", "8", "s", "/", "c", "l", "u", "s", "t", "e", "r", "s", "/">>

hostSlash == <<"h", "/">>

\* strings.TrimSuffix
TrimSuffix(s, suffix) ==
    IF /\ Len(s) >= Len(suffix)
       /\ SubSeq(s, Len(s) - Len(suffix) + 1, Len(s)) = suffix
    THEN SubSeq(s, 1, Len(s) - Len(suffix))
    ELSE s

\* lines 259-262 without the test of line 261: the proxy path is appended to
\* every non-empty host
clusterHostAlways(host, id) ==
    IF host # <<>>
    THEN TrimSuffix(host, <<"/">>) \o proxyPath \o id
    ELSE host

\* lines 255-262: the Host of the copied config
clusterHost(host, id) ==
    IF host # <<>> /\ ~Contains(host, proxyPath)
    THEN TrimSuffix(host, <<"/">>) \o proxyPath \o id
    ELSE host

\* lines 249-274: the client of a cluster, bound to the proxy endpoint; no
\* tells the clients of one refresh from those of another
createClusterClient(id) ==
    [host |-> clusterHost(mgrHost, id), no |-> refreshNo]

\* the base host of the management client (r.Manager.GetConfig().Host, line
\* 251) as createClusterClient may find it
hostBare == <<"h">>

\* a host that is already the proxy endpoint of the cluster c1
hostProxiedC1 == hostBare \o proxyPath \o cidC1

\* a host that is already the proxy endpoint of another cluster
hostProxiedC9 == hostBare \o proxyPath \o cidC9

HostInputs == { <<>>, hostBare, hostSlash, hostProxiedC1, hostProxiedC9 }

\* the cluster objects the management cluster starts with
InitClusters ==
    { <<ReadyCluster(localClusterID), ReadyCluster(cidC1),
        ReadyCluster(cidC2)>>,
      <<ReadyCluster(cidC1), Cluster(cidC2, TRUE, TRUE, <<condNoMap>>)>>,
      <<Cluster(cidC1, TRUE, FALSE, <<>>), ReadyCluster(cidC2),
        Cluster(cidC9, FALSE, FALSE, <<>>)>> }

(***************************************************************************)
(* The refresh goroutine (lines 151-246), one action per step.             *)
(***************************************************************************)
\* a refresh starts: what the histories keep of the state it finds
BeginRefresh ==
    /\ rpc' = "list"
    /\ refreshNo' = refreshNo + 1
    /\ previous' = [map |-> clusterClients, time |-> lastClusterRefresh]
    /\ listOutcome' = "none"
    /\ failed' = {}

\* line 156: the initial refresh, before the first tick
RefreshInitial ==
    /\ rpc = "init"
    /\ BeginRefresh
    /\ UNCHANGED <<clusterClients, lastClusterRefresh, clusters, mgrHost,
                   tick, clusterList, idx, newClusterClients,
                   clusterBudget>>
    /\ UNCHANGED <<reconciler, clusterMutex, call, cancelled>>

\* lines 158-164 with a default case: the loop refreshes without a tick
RefreshOnTickOrNot ==
    /\ rpc = "wait"
    /\ refreshNo <= MaxTicks
    /\ tick' = FALSE
    /\ BeginRefresh
    /\ UNCHANGED <<clusterClients, lastClusterRefresh, clusters, mgrHost,
                   clusterList, idx, newClusterClients,
                   clusterBudget>>
    /\ UNCHANGED <<reconciler, clusterMutex, call, cancelled>>

\* lines 158-164: the select takes a tick off the ticker's channel
RefreshOnTick ==
    /\ rpc = "wait"
    /\ tick
    /\ tick' = FALSE
    /\ BeginRefresh
    /\ UNCHANGED <<clusterClients, lastClusterRefresh, clusters, mgrHost,
                   clusterList, idx, newClusterClients,
                   clusterBudget>>
    /\ UNCHANGED <<reconciler, clusterMutex, call, cancelled>>

\* line 152: the ticker fires after an interval; its channel holds one tick
\* (a tick that finds the channel full is dropped and changes nothing)
Tick ==
    /\ ~tick
    /\ refreshNo <= MaxTicks
    /\ tick' = TRUE
    /\ UNCHANGED <<clusterClients, lastClusterRefresh, clusters, mgrHost, rpc,
                   clusterList, idx, newClusterClients, refreshNo, previous,
                   listOutcome, failed, clusterBudget>>
    /\ UNCHANGED <<reconciler, clusterMutex, call, cancelled>>

\* lines 180 and 185: the List of the clusters succeeds
RefreshListOk ==
    /\ rpc = "list"
    /\ clusterList' = clusters
    /\ newClusterClients' = EmptyMap
    /\ idx' = 1
    /\ listOutcome' = "ok"
    /\ rpc' = "loop"
    /\ UNCHANGED <<clusterClients, lastClusterRefresh, clusters, mgrHost,
                   tick, refreshNo, previous, failed,
                   clusterBudget>>
    /\ UNCHANGED <<reconciler, clusterMutex, call, cancelled>>

\* lines 180-185 without the return: the refresh goes on with no item
RefreshListErrorIgnored ==
    /\ rpc = "list"
    /\ clusterList' = <<>>
    /\ newClusterClients' = EmptyMap
    /\ idx' = 1
    /\ listOutcome' = "error"
    /\ rpc' = "loop"
    /\ UNCHANGED <<clusterClients, lastClusterRefresh, clusters, mgrHost,
                   tick, refreshNo, previous, failed,
                   clusterBudget>>
    /\ UNCHANGED <<reconciler, clusterMutex, call, cancelled>>

\* lines 180-183: the List fails and the refresh returns
RefreshListError ==
    /\ rpc = "list"
    /\ listOutcome' = "error"
    /\ rpc' = "return"
    /\ UNCHANGED <<clusterClients, lastClusterRefresh, clusters, mgrHost,
                   tick, clusterList, idx, newClusterClients,
                   refreshNo, previous, failed, clusterBudget>>
    /\ UNCHANGED <<reconciler, clusterMutex, call, cancelled>>

\* the loop of line 188 stands at an item
AtItem == rpc = "loop" /\ idx <= Len(clusterList)

\* lines 193-226 with the entry of the shared map deleted at once
RefreshSkipEvicts ==
    /\ AtItem
    /\ Skipped(clusterList[idx])
    /\ idx' = idx + 1
    /\ clusterClients' = MapDel(clusterClients, clusterList[idx].name)
    /\ UNCHANGED <<lastClusterRefresh, clusters, mgrHost,
                   tick, rpc, clusterList, newClusterClients, refreshNo,
                   previous, listOutcome, failed, clusterBudget>>
    /\ UNCHANGED <<reconciler, clusterMutex, call, cancelled>>

\* lines 193-226: the item is the local cluster or is not ready
RefreshSkip ==
    /\ AtItem
    /\ Skipped(clusterList[idx])
    /\ idx' = idx + 1
    /\ UNCHANGED <<clusterClients, lastClusterRefresh, clusters, mgrHost,
                   tick, rpc, clusterList, newClusterClients, refreshNo,
                   previous, listOutcome, failed, clusterBudget>>
    /\ UNCHANGED <<reconciler, clusterMutex, call, cancelled>>

\* lines 229-235 with the client put into the shared map as well
RefreshCreateOkInPlace ==
    /\ AtItem
    /\ ~Skipped(clusterList[idx])
    /\ \E c \in {createClusterClient(clusterList[idx].name)} :
          /\ newClusterClients' =
                 MapSet(newClusterClients, clusterList[idx].name, c)
          /\ clusterClients' = MapSet(clusterClients, clusterList[idx].name, c)
    /\ idx' = idx + 1
    /\ UNCHANGED <<lastClusterRefresh, clusters, mgrHost,
                   tick, rpc, clusterList, refreshNo, previous,
                   listOutcome, failed, clusterBudget>>
    /\ UNCHANGED <<reconciler, clusterMutex, call, cancelled>>

\* lines 229-235: the client of a ready cluster is constructed and kept
RefreshCreateOk ==
    /\ AtItem
    /\ ~Skipped(clusterList[idx])
    /\ \E c \in {createClusterClient(clusterList[idx].name)} :
          newClusterClients' =
              MapSet(newClusterClients, clusterList[idx].name, c)
    /\ idx' = idx + 1
    /\ UNCHANGED <<clusterClients, lastClusterRefresh, clusters, mgrHost,
                   tick, rpc, clusterList, refreshNo, previous,
                   listOutcome, failed, clusterBudget>>
    /\ UNCHANGED <<reconciler, clusterMutex, call, cancelled>>

\* lines 229-233 with a return in place of the continue
RefreshCreateErrorAborts ==
    /\ AtItem
    /\ ~Skipped(clusterList[idx])
    /\ failed' = failed \cup {clusterList[idx].name}
    /\ rpc' = "return"
    /\ UNCHANGED <<clusterClients, lastClusterRefresh, clusters, mgrHost,
                   tick, clusterList, idx, newClusterClients, refreshNo,
                   previous, listOutcome, clusterBudget>>
    /\ UNCHANGED <<reconciler, clusterMutex, call, cancelled>>

\* lines 229-233: the construction fails, the loop moves on
RefreshCreateError ==
    /\ AtItem
    /\ ~Skipped(clusterList[idx])
    /\ failed' = failed \cup {clusterList[idx].name}
    /\ idx' = idx + 1
    /\ UNCHANGED <<clusterClients, lastClusterRefresh, clusters, mgrHost,
                   tick, rpc, clusterList, newClusterClients, refreshNo,
                   previous, listOutcome, clusterBudget>>
    /\ UNCHANGED <<reconciler, clusterMutex, call, cancelled>>

\* line 240: after the loop, Lock waits until no reader holds the mutex
RefreshLock ==
    /\ rpc = "loop"
    /\ idx > Len(clusterList)
    /\ ~clusterMutex.writer
    /\ clusterMutex.readers = {}
    /\ clusterMutex' = [clusterMutex EXCEPT !.writer = TRUE]
    /\ rpc' = "locked"
    /\ UNCHANGED <<clusterClients, lastClusterRefresh, clusters, mgrHost,
                   tick, clusterList, idx, newClusterClients, refreshNo,
                   previous, listOutcome, failed, clusterBudget>>
    /\ UNCHANGED <<reconciler, call, cancelled>>

\* lines 241-242: the new map and the timestamp are assigned; the time of
\* the n-th refresh is written n
RefreshAssign ==
    /\ rpc = "locked"
    /\ clusterClients' = newClusterClients
    /\ lastClusterRefresh' = refreshNo
    /\ rpc' = "assigned"
    /\ UNCHANGED <<clusters, mgrHost, tick, clusterList, idx,
                   newClusterClients, refreshNo, previous, listOutcome,
                   failed, clusterBudget>>
    /\ UNCHANGED <<reconciler, clusterMutex, call, cancelled>>

\* line 243: Unlock
RefreshUnlock ==
    /\ rpc = "assigned"
    /\ clusterMutex' = [clusterMutex EXCEPT !.writer = FALSE]
    /\ rpc' = "return"
    /\ UNCHANGED <<clusterClients, lastClusterRefresh, clusters, mgrHost,
                   tick, clusterList, idx, newClusterClients, refreshNo,
                   previous, listOutcome, failed, clusterBudget>>
    /\ UNCHANGED <<reconciler, call, cancelled>>

\* lines 182 and 245-246: doRefreshClusterClients returns to the loop of
\* refreshClusterClients, and its locals are gone
RefreshReturn ==
    /\ rpc = "return"
    /\ rpc' = "wait"
    /\ clusterList' = <<>>
    /\ idx' = 0
    /\ newClusterClients' = EmptyMap
    /\ previous' = [map |-> EmptyMap, time |-> 0]
    /\ listOutcome' = "none"
    /\ failed' = {}
    /\ UNCHANGED <<clusterClients, lastClusterRefresh, clusters, mgrHost, tick,
                   refreshNo, clusterBudget>>
    /\ UNCHANGED <<reconciler, clusterMutex, call, cancelled>>

\* another actor writes or deletes a cluster object of the management cluster
ExtClusterChange(items) ==
    /\ clusterBudget > 0
    /\ items # clusters
    /\ clusterBudget' = clusterBudget - 1
    /\ clusters' = items
    /\ UNCHANGED <<clusterClients, lastClusterRefresh, mgrHost, tick,
                   rpc, clusterList, idx, newClusterClients, refreshNo,
                   previous, listOutcome, failed>>
    /\ UNCHANGED <<reconciler, clusterMutex, call, cancelled>>

ExtSetCluster ==
    \E i \in 1..Len(clusters) :
        \E c \in {ReadyCluster(clusters[i].name),
                  NotReadyCluster(clusters[i].name)} :
            ExtClusterChange([clusters EXCEPT ![i] = c])

ExtRemoveCluster ==
    \E i \in 1..Len(clusters) :
        ExtClusterChange(SubSeq(clusters, 1, i - 1)
                             \o SubSeq(clusters, i + 1, Len(clusters)))

(***************************************************************************)
(* Specification.                                                          *)
(***************************************************************************)
Next ==
    \E k \in Keys :
        \/ Start(k)
        \/ GetClusterClientReturn(k)
        \/ GetOk(k)
        \/ GetNotFound(k)
        \/ GetError(k)
        \/ ListOk(k)
        \/ ListError(k)
        \/ PatchOk(k)
        \/ PatchError(k)
        \/ ExtSetLabel(k)
        \/ ExtRemoveLabel(k)
        \/ ExtSetAnnotation(k)
        \/ ExtDelete(k)
        \/ ExtCreate(k)
        \/ ExtAddProject
        \/ ExtRemoveProject

Spec == Init /\ [][Next]_vars

\* The work queue hands every queued key to a worker, and an API call that
\* is retried again and again succeeds in the end.
FairSpec ==
    /\ Spec
    /\ \A k \in Keys :
          /\ WF_vars(Start(k))
          /\ WF_vars(GetClusterClientReturn(k))
          /\ SF_vars(GetOk(k))
          /\ SF_vars(ListOk(k))
          /\ SF_vars(PatchOk(k))

TypeOK ==
    /\ \A k \in DOMAIN pc :
          pc[k] \in {"idle", "detect", "get", "list", "patch"}
    /\ \A k \in DOMAIN pc : settled[k] \in {"no", "patched", "later"}
    /\ rpc \in {"off", "init", "list", "loop", "locked", "assigned", "return",
               "wait", "exited"}
    /\ clusterMutex.readers \subseteq DOMAIN pc
    /\ clusterMutex.writer \in BOOLEAN
    /\ idx \in 0..(Len(clusterList) + 1)

\* SetupWithManager starts the refresh goroutine next to the workers of
\* Reconcile; one namespace that names a project, no other writer of it,
\* and API calls of Reconcile that succeed (Spec has the failing ones)
RegistryInit ==
    /\ stored = [k \in Keys |->
                    Namespace(L1(appOwnerLabel, sDevOps), EmptyMap, 1)]
    /\ projects = <<prjDevOps>>
    /\ extBudget = 0
    /\ ReconcilerNew
    /\ RegistryNew
    /\ rpc = "init"
    /\ clusters \in InitClusters
    /\ mgrHost = hostSlash
    /\ clusterBudget = MaxClusterChanges
    /\ call = NoCall

RegistryNext ==
    \/ RefreshInitial
    \/ RefreshOnTick
    \/ Tick
    \/ RefreshListOk
    \/ RefreshListError
    \/ RefreshSkip
    \/ RefreshCreateOk
    \/ RefreshCreateError
    \/ RefreshLock
    \/ RefreshAssign
    \/ RefreshUnlock
    \/ RefreshReturn
    \/ ExtSetCluster
    \/ ExtRemoveCluster
    \/ \E k \in Keys :
          \/ Start(k)
          \/ GetClusterClientReturn(k)
          \/ GetOk(k)
          \/ ListOk(k)
          \/ PatchOk(k)

RegistrySpec == RegistryInit /\ [][RegistryNext]_vars

(***************************************************************************)
(* The pure functions, applied to inputs drawn from bounded sets.          *)
(***************************************************************************)
\* longest list of projects handed to findProjectByName
MaxProjects == 2

\* longest project identifier handed to extractClusterID
MaxIdLen == 4

\* the sequences over S of length at most n
SeqsUpTo(S, n) == UNION { [1..m -> S] : m \in 0..n }

sOPS == <<"o", "P", "S">>

NameInputs == { sDevOps, sdevops, sDEVOPS, sOps, sOPS, sGhost, sTeamA }

prjOps ==
    Project(cidC1, <<"c", "1", ":", "p", "7">>, TRUE, <<"o", "p", "s">>,
            EmptyMap, EmptyMap)

ProjectInputs == { prjDevOps, prjByLabel, prjByAnnotation, prjOps }

IdChars == { "c", "1", ":" }

keyName == <<"N", "a", "m", "e">>

\* projects that differ from prjByLabel and prjByAnnotation in a key only
prjByNameLabel ==
    Project(cidC1, pidP5, FALSE, sEmpty, L1(keyName, sDevOps), EmptyMap)

prjByOwnerAnnotation ==
    Project(<<"c","2">>, pidC2P3, TRUE, sOps, EmptyMap, L1(keyOwner, sDEVOPS))

prjTwoLabels ==
    Project(cidC1, pidP5, FALSE, sEmpty,
            L2(keyName, sTeamA, keyOwner, sOps), L1(keyName, sTeamB))

MatchProjectInputs ==
    ProjectInputs \cup { prjByNameLabel, prjByOwnerAnnotation, prjTwoLabels }

MatchCall(project, projectName) ==
    [fn |-> "projectMatches", project |-> project,
     projectName |-> projectName, done |-> FALSE, ret |-> FALSE]

PatchClusterCall(id, detected) ==
    [fn |-> "patchClusterID", projectID |-> id, clusterID |-> detected,
     done |-> FALSE, ret |-> <<>>]

HostCall(host, id) ==
    [fn |-> "clusterHost", host |-> host, clusterID |-> id,
     done |-> FALSE, ret |-> <<>>]

FindCall(items, projectName) ==
    [fn |-> "findProjectByName", items |-> items,
     projectName |-> projectName, done |-> FALSE, ret |-> 0]

ExtractCall(id) ==
    [fn |-> "extractClusterID", projectID |-> id, done |-> FALSE,
     ret |-> <<>>]

FunctionInit ==
    /\ stored = [k \in Keys |-> NoNamespace(1)]
    /\ projects = <<>>
    /\ extBudget = 0
    /\ ReconcilerNew
    /\ RegistryOff
    /\ \/ \E items \in SeqsUpTo(ProjectInputs, MaxProjects) :
             \E projectName \in NameInputs :
                 call = FindCall(items, projectName)
       \/ \E id \in SeqsUpTo(IdChars, MaxIdLen) :
             call = ExtractCall(id)
       \/ \E id \in SeqsUpTo(IdChars, MaxIdLen) :
             call = PatchClusterCall(id, localClusterID)
       \/ \E host \in HostInputs : \E id \in {cidC1, cidC2} :
             call = HostCall(host, id)
       \/ \E project \in MatchProjectInputs :
             \E projectName \in NameInputs \cup {sTeamB} :
                 call = MatchCall(project, projectName)

\* lines 301-310: findProjectByName over the listed items
FindProjectByName ==
    /\ call.fn = "findProjectByName"
    /\ ~call.done
    /\ call' = [call EXCEPT
                   !.ret = findProjectIndex(call.items, call.projectName),
                   !.done = TRUE]
    /\ UNCHANGED <<reconciler, clusterMutex, registry, cancelled>>

\* lines 355-361
ExtractClusterID ==
    /\ call.fn = "extractClusterID"
    /\ ~call.done
    /\ call' = [call EXCEPT !.ret = extractClusterID(call.projectID),
                            !.done = TRUE]
    /\ UNCHANGED <<reconciler, clusterMutex, registry, cancelled>>

\* lines 314-351
ProjectMatches ==
    /\ call.fn = "projectMatches"
    /\ ~call.done
    /\ call' = [call EXCEPT
                   !.ret = projectMatches(call.project, call.projectName),
                   !.done = TRUE]
    /\ UNCHANGED <<reconciler, clusterMutex, registry, cancelled>>

\* lines 113-119: the cluster id Reconcile hands to
\* updateNamespaceWithProject for the project id and the detected cluster id
PatchClusterID ==
    /\ call.fn = "patchClusterID"
    /\ ~call.done
    /\ call' = [call EXCEPT
                   !.ret = EffectiveClusterID(call.projectID, call.clusterID),
                   !.done = TRUE]
    /\ UNCHANGED <<reconciler, clusterMutex, registry, cancelled>>

\* lines 254-263: the host of the config createClusterClient builds
ClusterHost ==
    /\ call.fn = "clusterHost"
    /\ ~call.done
    /\ call' = [call EXCEPT !.ret = clusterHost(call.host, call.clusterID),
                            !.done = TRUE]
    /\ UNCHANGED <<reconciler, clusterMutex, registry, cancelled>>

FunctionNext ==
    \/ ClusterHost
    \/ FindProjectByName
    \/ ExtractClusterID
    \/ ProjectMatches
    \/ PatchClusterID

FunctionSpec == FunctionInit /\ [][FunctionNext]_vars

(***************************************************************************)
(* Vocabulary of the properties.                                           *)
(***************************************************************************)
\* the invocation of k issued the API call op
HasCall(k, op) == \E i \in 1..Len(calls[k]) : calls[k][i].op = op

\* the last API call of the invocation of k was op with this outcome
LastCall(k, op, outcome) ==
    /\ calls[k] # <<>>
    /\ calls[k][Len(calls[k])] = Call(op, outcome)

\* the value of the projectId label, "" when the label is absent
ProjectIdLabelOf(obj) == MapGet(obj.labels, rancherProjectIDLabel)

\* the value of the appOwner label, "" when the label is absent
AppOwnerOf(obj) == MapGet(obj.labels, appOwnerLabel)

(***************************************************************************)
(* C1 (as stated): once an invocation for a key ended in a successful      *)
(* patch and nothing else changed the namespace or the projects, every     *)
(* later invocation for the key issues no List and no Patch and returns    *)
(* without error.                                                          *)
(***************************************************************************)
C1_IdempotentNoError ==
    \A k \in Keys :
        settled[k] = "later" =>
            /\ ~HasCall(k, "List")
            /\ ~HasCall(k, "Patch")
            /\ ~result[k].err

(***************************************************************************)
(* C1 (amended): once an invocation for a key ended in a successful patch  *)
(* and nothing else changed the namespace or the projects, every later     *)
(* invocation for the key issues no List and no Patch, and returns an      *)
(* error only when its own Get failed.                                     *)
(***************************************************************************)
C1_Idempotent ==
    \A k \in Keys :
        settled[k] = "later" =>
            /\ ~HasCall(k, "List")
            /\ ~HasCall(k, "Patch")
            /\ result[k].err => calls[k] = <<Call("Get", "error")>>

\* a later invocation read the patched namespace and returned as a no-op
C1_Witness ==
    \E k \in Keys :
        /\ settled[k] = "later"
        /\ result[k].returned
        /\ ~result[k].err
        /\ calls[k] = <<Call("Get", "ok")>>

(***************************************************************************)
(* C2: when the fetched namespace carries a non-empty projectId label, the *)
(* invocation issues no List and no Patch and returns no error, whatever   *)
(* the appOwner label is.                                                  *)
(***************************************************************************)
C2_NoOpOnPreAssigned ==
    \A k \in Keys :
        (fetched[k].exists /\ ProjectIdLabelOf(fetched[k]) # <<>>) =>
            /\ ~HasCall(k, "List")
            /\ ~HasCall(k, "Patch")
            /\ ~result[k].err

\* an assigned namespace with an appOwner value that a project matches was
\* fetched, and the invocation returned
C2_Witness ==
    \E k \in Keys :
        /\ result[k].returned
        /\ fetched[k].exists
        /\ ProjectIdLabelOf(fetched[k]) # <<>>
        /\ EqualFold(AppOwnerOf(fetched[k]), sDevOps)
        /\ \E i \in 1..Len(projects) : projects[i] = prjDevOps

(***************************************************************************)
(* C3: when the fetched namespace has no appOwner label, or an empty one,  *)
(* the invocation issues no List and no Patch and returns no error.        *)
(***************************************************************************)
C3_NoOpOnMissingOwner ==
    \A k \in Keys :
        (fetched[k].exists /\ AppOwnerOf(fetched[k]) = <<>>) =>
            /\ ~HasCall(k, "List")
            /\ ~HasCall(k, "Patch")
            /\ ~result[k].err

\* an unassigned namespace whose appOwner label is present and empty was
\* fetched, and the invocation returned
C3_Witness ==
    \E k \in Keys :
        /\ result[k].returned
        /\ fetched[k].exists
        /\ appOwnerLabel \in DOMAIN fetched[k].labels
        /\ AppOwnerOf(fetched[k]) = <<>>
        /\ ProjectIdLabelOf(fetched[k]) = <<>>

\* v equals, up to letter case, the displayName of p, one of its label
\* values or one of its annotation values
NameFound(p, v) ==
    \/ p.hasDisplayName /\ EqualFold(p.displayName, v)
    \/ \E x \in DOMAIN p.labels : EqualFold(p.labels[x], v)
    \/ \E x \in DOMAIN p.annotations : EqualFold(p.annotations[x], v)

\* P is the identifier of the first of the items that v names
FirstNamed(items, v, P) ==
    \E i \in 1..Len(items) :
        /\ NameFound(items[i], v)
        /\ \A j \in 1..(i - 1) : ~NameFound(items[j], v)
        /\ items[i].name = P

\* P has the form c:p, c not empty
HasClusterPrefix(P, c) ==
    /\ c # <<>>
    /\ Len(P) > Len(c)
    /\ SubSeq(P, 1, Len(c)) = c
    /\ P[Len(c) + 1] = ":"
    /\ \A j \in 1..Len(c) : c[j] # ":"

\* the invocation of k made its three calls and all succeeded
AllCallsOk(k) ==
    calls[k] = <<Call("Get", "ok"), Call("List", "ok"), Call("Patch", "ok")>>

\* the candidate cluster ids and project ids of the properties
SomeClusterIds == {cidC1, cidC9, <<"c","2">>, localClusterID}

SomeProjectIds == {pidC1P2, pidC2P3, pidP5}

(***************************************************************************)
(* C4 (as stated): when the fetched namespace has a non-empty appOwner     *)
(* value v and no non-empty projectId label, and the first listed project  *)
(* that matches v has the identifier P = c:p, c not empty, a Reconcile     *)
(* whose Get, List and Patch succeed leaves the stored namespace with      *)
(* label projectId = P, label clusterId = c and annotation projectId = P.  *)
(***************************************************************************)
C4_AssignsProject ==
    \A k \in Keys : \A P \in SomeProjectIds : \A c \in SomeClusterIds :
        ( /\ AllCallsOk(k)
          /\ AppOwnerOf(fetched[k]) # <<>>
          /\ ProjectIdLabelOf(fetched[k]) = <<>>
          /\ FirstNamed(listed[k], AppOwnerOf(fetched[k]), P)
          /\ HasClusterPrefix(P, c) ) =>
            /\ MapGet(postPatch[k].labels, rancherProjectIDLabel) = P
            /\ MapGet(postPatch[k].labels, rancherClusterIDLabel) = c
            /\ MapGet(postPatch[k].annotations, rancherProjectIDAnnotation) = P

(***************************************************************************)
(* C5: a successful patch leaves every label other than projectId and      *)
(* clusterId, and every annotation other than projectId, as it was in the  *)
(* stored namespace immediately before the patch.                          *)
(***************************************************************************)
C5_PatchFrame ==
    \A k \in Keys :
        LastCall(k, "Patch", "ok") =>
            /\ postPatch[k].exists = prePatch[k].exists
            /\ \A x \in (DOMAIN prePatch[k].labels) \cup (DOMAIN postPatch[k].labels) :
                  x \notin {rancherProjectIDLabel, rancherClusterIDLabel} =>
                      /\ x \in DOMAIN prePatch[k].labels
                      /\ x \in DOMAIN postPatch[k].labels
                      /\ postPatch[k].labels[x] = prePatch[k].labels[x]
            /\ \A x \in (DOMAIN prePatch[k].annotations)
                            \cup (DOMAIN postPatch[k].annotations) :
                  x # rancherProjectIDAnnotation =>
                      /\ x \in DOMAIN prePatch[k].annotations
                      /\ x \in DOMAIN postPatch[k].annotations
                      /\ postPatch[k].annotations[x] = prePatch[k].annotations[x]

\* a patch succeeded on a namespace in which another actor had rewritten
\* the team label after the Get, and the label kept the other actor's value
C5_Witness ==
    \E k \in Keys :
        /\ LastCall(k, "Patch", "ok")
        /\ "team" \in DOMAIN fetched[k].labels
        /\ "team" \in DOMAIN prePatch[k].labels
        /\ prePatch[k].labels["team"] # fetched[k].labels["team"]
        /\ postPatch[k].labels["team"] = prePatch[k].labels["team"]
        /\ postPatch[k] # prePatch[k]

C4_AssignsProjectWhenFresh ==
    \A k \in Keys : \A P \in SomeProjectIds : \A c \in SomeClusterIds :
        ( /\ AllCallsOk(k)
          /\ prePatch[k] = fetched[k]
          /\ AppOwnerOf(fetched[k]) # <<>>
          /\ ProjectIdLabelOf(fetched[k]) = <<>>
          /\ FirstNamed(listed[k], AppOwnerOf(fetched[k]), P)
          /\ HasClusterPrefix(P, c) ) =>
            /\ MapGet(postPatch[k].labels, rancherProjectIDLabel) = P
            /\ MapGet(postPatch[k].labels, rancherClusterIDLabel) = c
            /\ MapGet(postPatch[k].annotations, rancherProjectIDAnnotation) = P

\* the end-to-end scenario: owner DevOps, project c1:p2 with displayName
\* devops, all three calls succeed on a namespace nobody else wrote
C4_WitnessWhenFresh ==
    \E k \in Keys :
        /\ AllCallsOk(k)
        /\ prePatch[k] = fetched[k]
        /\ AppOwnerOf(fetched[k]) = sDevOps
        /\ FirstNamed(listed[k], sDevOps, pidC1P2)
        /\ MapGet(postPatch[k].labels, rancherClusterIDLabel) = cidC1

(***************************************************************************)
(* C7 (as stated): once the stored projectId label of a namespace is not   *)
(* empty, no step of a Reconcile invocation changes its value.             *)
(***************************************************************************)
C7_AssignedLabelKept ==
    [][ \A k \in Keys :
            ( /\ calls'[k] # calls[k]
              /\ stored[k].exists
              /\ ProjectIdLabelOf(stored[k]) # <<>> ) =>
                ProjectIdLabelOf(stored'[k]) = ProjectIdLabelOf(stored[k]) ]_vars

(***************************************************************************)
(* C8 (as stated): a Patch sent after the stored resourceVersion moved     *)
(* away from the one the Get returned is rejected: the call fails, the     *)
(* stored namespace stays as it was and Reconcile returns the error.       *)
(***************************************************************************)
C8_StalePatchRejected ==
    \A k \in Keys :
        ( /\ HasCall(k, "Patch")
          /\ prePatch[k].rv # fetched[k].rv ) =>
            /\ ~LastCall(k, "Patch", "ok")
            /\ postPatch[k] = prePatch[k]
            /\ result[k].err

(***************************************************************************)
(* C10: Reconcile returns an error exactly when its Get failed other than  *)
(* by not-found, its List failed or its Patch failed; every other exit     *)
(* returns nil; no exit asks for a requeue in the result.                  *)
(***************************************************************************)
C10_ErrorIffCallFailed ==
    \A k \in Keys :
        result[k].returned =>
            /\ result[k].err <=>
                  \/ LastCall(k, "Get", "error")
                  \/ LastCall(k, "List", "error")
                  \/ LastCall(k, "Patch", "error")
                  \/ LastCall(k, "Patch", "notfound")
            /\ ~result[k].Requeue

\* an invocation returned the error of a failed List
C10_Witness ==
    \E k \in Keys :
        /\ result[k].returned
        /\ result[k].err
        /\ calls[k] = <<Call("Get", "ok"), Call("List", "error")>>

\* the namespace of k exists with a non-empty appOwner value that names a
\* project with a non-empty identifier
OwnerNamesProject(k) ==
    /\ stored[k].exists
    /\ AppOwnerOf(stored[k]) # <<>>
    /\ \E i \in 1..Len(projects) :
          /\ NameFound(projects[i], AppOwnerOf(stored[k]))
          /\ projects[i].name # <<>>

(***************************************************************************)
(* C9: with every queued key handed to Reconcile, a requeue after every    *)
(* error and API calls that succeed in the end, a namespace that keeps a   *)
(* non-empty appOwner value naming an existing project with a non-empty    *)
(* identifier eventually carries a non-empty projectId label.              *)
(***************************************************************************)
C9_EventuallyAssigned ==
    \A k \in Keys :
        ([]OwnerNamesProject(k)) => <>(ProjectIdLabelOf(stored[k]) # <<>>)

\* Reconcile assigned a namespace whose owner names a project, after a
\* failed attempt had been requeued
C9_Witness ==
    \E k \in Keys :
        /\ OwnerNamesProject(k)
        /\ AllCallsOk(k)
        /\ ProjectIdLabelOf(fetched[k]) = <<>>
        /\ ProjectIdLabelOf(stored[k]) # <<>>
        /\ extBudget = MaxExternalWrites

(***************************************************************************)
(* C11: an invocation whose Get reports not-found makes no other API call  *)
(* (no project List, no Patch) and returns without error and without a     *)
(* requeue request.                                                        *)
(***************************************************************************)
C11_NotFoundReturnsNil ==
    \A k \in Keys :
        HasCall(k, "Get") /\ calls[k][1].outcome = "notfound" =>
            /\ ~HasCall(k, "List")
            /\ ~HasCall(k, "Patch")
            /\ result[k] = [returned |-> TRUE, err |-> FALSE,
                            Requeue |-> FALSE]

\* the namespace of a queued key was deleted, and the Get of the invocation
\* reported not-found
C11_Witness ==
    \E k \in Keys :
        /\ ~stored[k].exists
        /\ LastCall(k, "Get", "notfound")
        /\ result[k].returned

\* the invocation of k wrote the namespace: a Patch of it was applied
WroteNamespace(k) ==
    \E i \in 1..Len(calls[k]) :
        /\ calls[k][i].op = "Patch"
        /\ postPatch[k] # prePatch[k]

(***************************************************************************)
(* C12: a step of Reconcile that changes the stored namespace or the       *)
(* projects belongs to an invocation that returns no error, and a step     *)
(* that returns an error changes neither and ends an invocation that       *)
(* wrote nothing.                                                          *)
(***************************************************************************)
C12_ErrorChangedNothing ==
    [][\A k \in Keys :
          calls'[k] # calls[k] =>
             /\ (stored' # stored \/ projects' # projects) =>
                    /\ result'[k].returned
                    /\ ~result'[k].err
             /\ result'[k].err =>
                    /\ stored' = stored
                    /\ projects' = projects
                    /\ ~WroteNamespace(k)']_vars

\* a Patch failed after a successful Get and List, and the stored namespace
\* is the one the Patch found
C12_Witness ==
    \E k \in Keys :
        /\ result[k].err
        /\ LastCall(k, "Patch", "error")
        /\ patch[k] # EmptyPatch
        /\ stored[k] = prePatch[k]
        /\ ProjectIdLabelOf(stored[k]) = <<>>

\* s and t are the same letters up to letter case
CaseVariant(s, t) ==
    /\ Len(s) = Len(t)
    /\ \A i \in 1..Len(s) :
          \/ s[i] = t[i]
          \/ \E j \in 1..Len(UpperLetters) :
                {s[i], t[i]} = {UpperLetters[j], LowerLetters[j]}

(***************************************************************************)
(* C13: findProjectByName returns for every letter-case variant of a name  *)
(* the project it returns for the name, and when the spec.displayName of   *)
(* a listed project is the name up to letter case, a project is returned:  *)
(* that one or one listed before it.                                       *)
(***************************************************************************)
C13_CaseInsensitive ==
    call.fn = "findProjectByName" /\ call.done =>
        /\ \A n \in NameInputs :
              CaseVariant(n, call.projectName) =>
                  findProjectIndex(call.items, n) = call.ret
        /\ \A i \in 1..Len(call.items) :
              /\ call.items[i].hasDisplayName
              /\ CaseVariant(call.items[i].displayName, call.projectName)
              => call.ret \in 1..i

\* "DEV" resolved to the second listed project, whose displayName is "dev"
C13_Witness ==
    /\ call.fn = "findProjectByName"
    /\ call.done
    /\ call.projectName = sDEVOPS
    /\ call.ret = 2
    /\ call.items[2].displayName = sdevops

(***************************************************************************)
(* C14: extractClusterID returns the part of the identifier before its     *)
(* first colon when the identifier has a colon, the empty string when it   *)
(* has none.                                                               *)
(***************************************************************************)
C14_ExtractClusterID ==
    call.fn = "extractClusterID" /\ call.done =>
        IF \E i \in 1..Len(call.projectID) : call.projectID[i] = ":"
        THEN \E i \in 1..Len(call.projectID) :
                /\ call.projectID[i] = ":"
                /\ \A j \in 1..(i - 1) : call.projectID[j] # ":"
                /\ call.ret = SubSeq(call.projectID, 1, i - 1)
        ELSE call.ret = <<>>

\* "c1:1" gave "c1", and an identifier with two colons gave its first part
C14_Witness ==
    /\ call.fn = "extractClusterID"
    /\ call.done
    /\ call.projectID \in { <<"c", "1", ":", "1">>, <<"c", ":", "1", ":">> }
    /\ call.ret # <<>>

\* the refresh goroutine is inside doRefreshClusterClients and has not yet
\* assigned the map
RefreshBuilding == rpc \in {"list", "loop", "locked"}

\* the cluster object has a status whose conditions hold an entry with type
\* "Ready" and status "True"
ListedReady(cluster) ==
    /\ cluster.hasStatus
    /\ cluster.hasConditions
    /\ \E i \in 1..Len(cluster.conditions) :
          /\ cluster.conditions[i].isMap
          /\ cluster.conditions[i].type = "Ready"
          /\ cluster.conditions[i].status = "True"

\* the ids of the listed clusters that are ready and not named "local"
ListedReadyIds ==
    { clusterList[i].name : i \in { j \in 1..Len(clusterList) :
          /\ clusterList[j].name # localClusterID
          /\ ListedReady(clusterList[j]) } }

(***************************************************************************)
(* C15: while a refresh lists the clusters and builds its map, and while   *)
(* it waits for the lock, the registry map is the one the refresh found;   *)
(* once it has assigned, the registry map is the map of the finished loop. *)
(* A map the loop is still filling is never the registry map.              *)
(***************************************************************************)
C15_CompleteSnapshot ==
    /\ RefreshBuilding => clusterClients = previous.map
    /\ rpc \in {"assigned", "return"} /\ listOutcome = "ok" =>
          /\ clusterClients = newClusterClients
          /\ idx = Len(clusterList) + 1

\* a reader holds the read lock while the second refresh has built one of
\* two clients: the registry still is the map of the first refresh
C15_Witness ==
    /\ rpc = "loop"
    /\ clusterMutex.readers # {}
    /\ DOMAIN newClusterClients = {cidC1}
    /\ DOMAIN clusterClients = {cidC1, cidC2}
    /\ idx <= Len(clusterList)
    /\ ~Skipped(clusterList[idx])

(***************************************************************************)
(* C16: a refresh whose List failed returns with the registry map and the  *)
(* timestamp it found when it started.                                     *)
(***************************************************************************)
C16_ListFailureKeepsSnapshot ==
    rpc = "return" /\ listOutcome = "error" =>
        /\ clusterClients = previous.map
        /\ lastClusterRefresh = previous.time

\* the List of the second refresh failed; the registry keeps the two
\* clients of the first refresh although a cluster changed since
C16_Witness ==
    /\ rpc = "return"
    /\ listOutcome = "error"
    /\ DOMAIN clusterClients = {cidC1, cidC2}
    /\ lastClusterRefresh = 1
    /\ refreshNo = 2
    /\ clusterBudget < MaxClusterChanges

(***************************************************************************)
(* C17: a refresh in which the construction of a client failed still       *)
(* swaps: the registry then has no entry for a cluster whose construction  *)
(* failed, and an entry for every other listed cluster that is ready and   *)
(* not named "local".                                                      *)
(***************************************************************************)
C17_FailedClientOmitted ==
    rpc = "return" /\ listOutcome = "ok" /\ failed # {} =>
        /\ lastClusterRefresh = refreshNo
        /\ failed \cap DOMAIN clusterClients = {}
        /\ ListedReadyIds \ failed \subseteq DOMAIN clusterClients

\* of two ready clusters the construction failed for c1 and succeeded for c2
C17_Witness ==
    /\ rpc = "return"
    /\ listOutcome = "ok"
    /\ failed = {cidC1}
    /\ DOMAIN clusterClients = {cidC2}

(***************************************************************************)
(* C18: after a refresh whose List succeeded, the keys of the registry are *)
(* exactly the listed clusters that are not named "local", are ready and   *)
(* whose client was constructed in this refresh; every entry is a client   *)
(* of this refresh, so no entry of the previous snapshot is left.          *)
(***************************************************************************)
C18_KeysAreReadyClusters ==
    rpc = "return" /\ listOutcome = "ok" =>
        /\ DOMAIN clusterClients = ListedReadyIds \ failed
        /\ \A id \in DOMAIN clusterClients : clusterClients[id].no = refreshNo

\* the second refresh dropped c1, which the first one had, and kept c2
C18_Witness ==
    /\ rpc = "return"
    /\ listOutcome = "ok"
    /\ cidC1 \in DOMAIN previous.map
    /\ failed = {}
    /\ DOMAIN clusterClients = {cidC2}

\* the cluster object of this id exists and is not ready
NotReadyNow(id) ==
    \E i \in 1..Len(clusters) :
        clusters[i].name = id /\ ~ListedReady(clusters[i])

(***************************************************************************)
(* C19 (as stated): an entry of the registry whose cluster has turned not  *)
(* ready leaves the registry only in the swap of a refresh that listed     *)
(* the cluster as not ready.                                               *)
(***************************************************************************)
C19_StaysUntilListedNotReady ==
    [][\A id \in DOMAIN clusterClients :
          NotReadyNow(id) /\ id \notin DOMAIN clusterClients' =>
              /\ rpc = "locked" /\ rpc' = "assigned"
              /\ \E i \in 1..Len(clusterList) :
                    /\ clusterList[i].name = id
                    /\ ~ListedReady(clusterList[i])]_vars

(***************************************************************************)
(* C19 (amended): the registry map changes only in the step that assigns   *)
(* the map of a refresh under the lock, and after that step it has no      *)
(* entry for a cluster that the refresh listed as not ready. So a cluster  *)
(* that turns not ready stays in the registry until the next swap, and is  *)
(* gone after the swap of a refresh that listed it as not ready.           *)
(***************************************************************************)
C19_ChangesOnlyAtSwap ==
    [][/\ clusterClients' # clusterClients =>
             rpc = "locked" /\ rpc' = "assigned"
       /\ rpc = "locked" /\ rpc' = "assigned" =>
             \A i \in 1..Len(clusterList) :
                 ~ListedReady(clusterList[i]) =>
                     clusterList[i].name \notin DOMAIN clusterClients']_vars

\* c1 turned not ready after the first refresh; it still is in the
\* registry while the second refresh, which listed it as not ready, holds
\* the lock just before the swap
C19_Witness ==
    /\ rpc = "locked"
    /\ cidC1 \in DOMAIN clusterClients
    /\ \E i \in 1..Len(clusterList) :
          /\ clusterList[i].name = cidC1
          /\ ~ListedReady(clusterList[i])
    /\ \E i \in 1..Len(clusters) :
          /\ clusters[i].name = cidC1
          /\ ~ListedReady(clusters[i])

(***************************************************************************)
(* C20: the write lock is held only between the end of the loop and the    *)
(* Unlock, that is never during the List of the clusters or the            *)
(* construction of a client, and a Reconcile holds the read lock only      *)
(* inside getClusterClient, never at its Get, List or Patch.               *)
(***************************************************************************)
C20_NoLockAcrossNetwork ==
    /\ clusterMutex.writer <=> rpc \in {"locked", "assigned"}
    /\ \A k \in Keys : k \in clusterMutex.readers <=> pc[k] = "detect"
    /\ ~(clusterMutex.writer /\ clusterMutex.readers # {})

\* the refresh holds the write lock for the swap of a map with a client,
\* while a Reconcile that gave the read lock back is at an API call
C20_Witness ==
    /\ clusterMutex.writer
    /\ newClusterClients # EmptyMap
    /\ \E k \in Keys : pc[k] \in {"get", "list", "patch"}

(***************************************************************************)
(* C21: the step that starts the first refresh is taken from the start of  *)
(* the goroutine, whether or not a tick has fired; the goroutine waits     *)
(* only after that refresh, and every later refresh starts from the wait   *)
(* by taking a tick off the ticker's channel.                              *)
(***************************************************************************)
C21_InitialThenOnTicks ==
    [][/\ refreshNo' # refreshNo =>
             /\ refreshNo' = refreshNo + 1
             /\ rpc' = "list"
             /\ \/ rpc = "init" /\ refreshNo = 0 /\ tick' = tick
                \/ rpc = "wait" /\ refreshNo > 0 /\ tick /\ ~tick'
       /\ rpc' = "wait" => refreshNo' > 0
       /\ rpc = "init" /\ rpc' # "init" => refreshNo' = 1]_vars

\* the second refresh has started on a tick, after a first refresh that
\* ran to its swap
C21_Witness ==
    /\ refreshNo = 2
    /\ rpc = "list"
    /\ ~tick
    /\ lastClusterRefresh = 1

\* ------------------------------------------------------------------
\* The lifetime of the refresh goroutine (SetupWithManager, lines 395-412)

\* line 402: the context handed to refreshClusterClients is a fresh
\* context.Background(), not the context the manager is started with
refreshCtx == "background"

\* ctx.Done() of line 159: the Background context is never done; the
\* manager's root context is done once it is cancelled
Done(c) == c = "root" /\ cancelled

\* the manager's root context is cancelled (shutdown of the manager that
\* SetupWithManager registers the controller with)
Cancel ==
    /\ ~cancelled
    /\ cancelled' = TRUE
    /\ UNCHANGED <<reconciler, clusterMutex, registry, call>>

\* lines 159-160 and the deferred ticker.Stop of line 153: the select sees
\* the context done and the goroutine returns.  With refreshCtx the
\* Background context the guard is never true, so no behaviour takes this
\* step and LifecycleNext does not list it.
RefreshExit ==
    /\ rpc = "wait"
    /\ Done(refreshCtx)
    /\ rpc' = "exited"
    /\ tick' = FALSE
    /\ UNCHANGED <<clusterClients, lastClusterRefresh, clusters, mgrHost,
                   clusterList, idx, newClusterClients, refreshNo, previous,
                   listOutcome, failed, clusterBudget>>
    /\ UNCHANGED <<reconciler, clusterMutex, call, cancelled>>

\* the steps of the refresh goroutine
RefreshStep ==
    \/ RefreshInitial
    \/ RefreshOnTick
    \/ RefreshListOk
    \/ RefreshListError
    \/ RefreshSkip
    \/ RefreshCreateOk
    \/ RefreshCreateError
    \/ RefreshLock
    \/ RefreshAssign
    \/ RefreshUnlock
    \/ RefreshReturn

LifecycleInit == RegistryInit

LifecycleNext ==
    \/ RefreshInitial
    \/ RefreshOnTick
    \/ Tick
    \/ RefreshListOk
    \/ RefreshListError
    \/ RefreshSkip
    \/ RefreshCreateOk
    \/ RefreshCreateError
    \/ RefreshLock
    \/ RefreshAssign
    \/ RefreshUnlock
    \/ RefreshReturn
    \/ Cancel

LifecycleSpec == LifecycleInit /\ [][LifecycleNext]_vars

\* the Go scheduler keeps running the goroutine while it has a step to take
LifecycleFairSpec == LifecycleSpec /\ WF_vars(RefreshStep)

\* C22: once the root context is cancelled, the refresh loop eventually
\* exits (and so stops its ticker and starts no further refresh).
C22_CancelStopsLoop == cancelled ~> (rpc = "exited")

\* the goroutine can never take the exit step, whatever the root context
C22_ExitNeverEnabled == ~(rpc = "wait" /\ Done(refreshCtx))

ValuesOf(m) == { m[x] : x \in DOMAIN m }

(***************************************************************************)
(* C24: projectMatches is true exactly when the name is, up to letter      *)
(* case, the spec.displayName of the project, the value of one of its      *)
(* labels or the value of one of its annotations; two projects with the    *)
(* same displayName, the same label values and the same annotation values  *)
(* get the same answer, whatever the keys.                                 *)
(***************************************************************************)
C24_MatchPredicate ==
    call.fn = "projectMatches" /\ call.done =>
        /\ call.ret <=>
              \/ /\ call.project.hasDisplayName
                 /\ CaseVariant(call.project.displayName, call.projectName)
              \/ \E v \in ValuesOf(call.project.labels) :
                    CaseVariant(v, call.projectName)
              \/ \E v \in ValuesOf(call.project.annotations) :
                    CaseVariant(v, call.projectName)
        /\ \A q \in MatchProjectInputs :
              /\ q.hasDisplayName = call.project.hasDisplayName
              /\ q.displayName = call.project.displayName
              /\ ValuesOf(q.labels) = ValuesOf(call.project.labels)
              /\ ValuesOf(q.annotations) = ValuesOf(call.project.annotations)
              => projectMatches(q, call.projectName) = call.ret

\* a label whose key suggests no name field, and whose value is the name in
\* another letter case, made the project match
C24_Witness ==
    /\ call.fn = "projectMatches"
    /\ call.done
    /\ call.project = prjByLabel
    /\ call.projectName = sDEVOPS
    /\ ~LabelKeyIsNameField(keyOwner)
    /\ call.ret

\* ------------------------------------------------------------------
\* Two keys in the work queue: the workers of the controller run Reconcile
\* for distinct keys at the same time (no other actor writes)

TwoKeys == {"ns1", "ns2"}

ConcurrentNamespaces ==
    { Namespace(L1(appOwnerLabel, sDevOps), EmptyMap, 1),
      Namespace(L2(appOwnerLabel, sOps, "team", sTeamA), EmptyMap, 1),
      Namespace(L1(appOwnerLabel, sGhost), EmptyMap, 1),
      Namespace(L2(appOwnerLabel, sOps, rancherProjectIDLabel, pidC2P3),
                EmptyMap, 1),
      NoNamespace(1) }

ConcurrentInit ==
    /\ stored \in [TwoKeys -> ConcurrentNamespaces]
    /\ projects = <<prjByLabel, prjDevOps, prjByAnnotation>>
    /\ ReconcilerStart(TwoKeys)
    /\ extBudget = 0
    /\ RegistryOff
    /\ call = NoCall

ConcurrentNext ==
    \E k \in TwoKeys :
        \/ Start(k)
        \/ GetClusterClientReturn(k)
        \/ GetOk(k)
        \/ GetNotFound(k)
        \/ GetError(k)
        \/ ListOk(k)
        \/ ListError(k)
        \/ PatchOk(k)
        \/ PatchError(k)

ConcurrentSpec == ConcurrentInit /\ [][ConcurrentNext]_vars

\* Reconcile run alone on the namespace obj with every call succeeding:
\* the namespace it leaves in the API server (lines 72-133)
SerialOutcome(obj, items) ==
    IF ~obj.exists \/ ~HasAppOwner(obj) \/ AlreadyAssigned(obj)
    THEN obj
    ELSE LET lst == ListedProjects(items, localClusterID)
             i   == findProjectIndex(lst, obj.labels[appOwnerLabel])
         IN  IF i = 0
             THEN obj
             ELSE IF lst[i].name = <<>>
             THEN obj
             ELSE ApplyMergePatch(obj,
                      MergeFrom(obj,
                          WithProject(obj, lst[i].name,
                              EffectiveClusterID(lst[i].name,
                                                 localClusterID))))

\* everything the model holds for the key k
PerKey(k) ==
    <<stored[k], pending[k], pc[k], clusterID[k], namespace[k], projectID[k],
      projectClusterID[k], patch[k], result[k], calls[k], fetched[k],
      listed[k], prePatch[k], postPatch[k], settled[k]>>

\* no invocation runs and none is queued
Quiescent == \A k \in DOMAIN pc : pc[k] = "idle" /\ ~pending[k]

\* the invocation of k returned an error exactly when its last call failed
ReturnFollowsOwnCalls(k) ==
    result[k].returned =>
        /\ calls[k] # <<>>
        /\ result[k].err <=>
              calls[k][Len(calls[k])].outcome \in {"error"}
              \/ calls[k][Len(calls[k])] = Call("Patch", "notfound")

(***************************************************************************)
(* C25: Reconcile invocations for distinct keys do not interfere.  A step  *)
(* of the invocation of k changes nothing held for another key, it reads   *)
(* the namespace k and patches the namespace k only; the value each        *)
(* invocation returns follows from its own calls; and when the queue has   *)
(* drained, every key has the namespace that Reconcile run alone on its    *)
(* initial namespace leaves, whatever the interleaving was.                *)
(***************************************************************************)
C25_DistinctKeysIndependent ==
    /\ [][\A k \in TwoKeys :
            /\ PerKey(k)' # PerKey(k) =>
                  \A j \in TwoKeys \ {k} : PerKey(j)' = PerKey(j)
            /\ fetched'[k] # fetched[k] =>
                  fetched'[k] \in {stored[k], NoNamespace(0)}
            /\ stored'[k] # stored[k] =>
                  /\ pc[k] = "patch"
                  /\ stored'[k] = ApplyMergePatch(stored[k], patch[k])]_vars
    /\ [](\A k \in TwoKeys : ReturnFollowsOwnCalls(k))
    /\ [](Quiescent =>
             \A k \in TwoKeys :
                 /\ stored[k] = SerialOutcome(initial[k], projects)
                 /\ result[k] = Returned(FALSE))

\* the invocations of two keys have both made their Get and List and are
\* both about to patch, each its own namespace with its own project
C25_Witness ==
    /\ DOMAIN pc = TwoKeys
    /\ \A k \in TwoKeys : pc[k] = "patch" /\ stored[k] = initial[k]
    /\ projectID["ns1"] # projectID["ns2"]

\* the calls an invocation may make, in the order it makes them
CallOrder == <<"Get", "List", "Patch">>

(***************************************************************************)
(* C27: the steps of one invocation run in a fixed order and a terminal    *)
(* step ends it.  The calls are Get, then List, then Patch, each made only *)
(* after the one before succeeded; the List only after the Get returned a  *)
(* namespace with a non-empty appOwner label and no non-empty projectId    *)
(* label; the Patch only after the List yielded a project the owner names, *)
(* with a non-empty identifier; and an invocation that has returned ended  *)
(* in exactly one of error, success (the Patch succeeded) and no-op (no    *)
(* Patch was issued).                                                      *)
(***************************************************************************)
C27_FixedStepOrder ==
    \A k \in Keys :
        /\ Len(calls[k]) <= Len(CallOrder)
        /\ \A i \in 1..Len(calls[k]) :
              /\ calls[k][i].op = CallOrder[i]
              /\ i < Len(calls[k]) => calls[k][i].outcome = "ok"
        /\ HasCall(k, "List") =>
              /\ fetched[k].exists
              /\ AppOwnerOf(fetched[k]) # <<>>
              /\ ProjectIdLabelOf(fetched[k]) = <<>>
        /\ HasCall(k, "Patch") =>
              /\ projectID[k] # <<>>
              /\ FirstNamed(listed[k], AppOwnerOf(fetched[k]), projectID[k])
        /\ pc[k] = "get"   => calls[k] = <<>>
        /\ pc[k] = "list"  => calls[k] = <<Call("Get", "ok")>>
        /\ pc[k] = "patch" => calls[k] = <<Call("Get", "ok"), Call("List", "ok")>>
        /\ pc[k] # "idle" => ~result[k].returned
        /\ result[k].returned =>
              /\ pc[k] = "idle"
              /\ calls[k] # <<>>
              /\ LET last == calls[k][Len(calls[k])]
                     error   == result[k].err
                     success == ~result[k].err /\ last = Call("Patch", "ok")
                     noop    == ~result[k].err /\ ~HasCall(k, "Patch")
                 IN  /\ error \/ success \/ noop
                     /\ ~(error /\ success) /\ ~(error /\ noop)
                     /\ ~(success /\ noop)
                     /\ error <=> last.outcome # "ok" /\ last # Call("Get", "notfound")
                     /\ noop =>
                           \/ last = Call("Get", "notfound")
                           \/ /\ last = Call("Get", "ok")
                              /\ \/ AppOwnerOf(fetched[k]) = <<>>
                                 \/ ProjectIdLabelOf(fetched[k]) # <<>>
                           \/ /\ last = Call("List", "ok")
                              /\ \/ \A i \in 1..Len(listed[k]) :
                                       ~NameFound(listed[k][i],
                                                  AppOwnerOf(fetched[k]))
                                    \/ FirstNamed(listed[k],
                                                  AppOwnerOf(fetched[k]), <<>>)

\* an invocation went through Get, List and Patch and returned success
C27_Witness ==
    \E k \in Keys :
        /\ result[k] = Returned(FALSE)
        /\ calls[k] = <<Call("Get", "ok"), Call("List", "ok"),
                        Call("Patch", "ok")>>
        /\ projectID[k] = pidC1P2

\* the identifier has a colon
HasColon(id) == \E i \in 1..Len(id) : id[i] = ":"

\* the part of the identifier before its first colon
BeforeColon(id) ==
    LET i == CHOOSE i \in 1..Len(id) :
                 id[i] = ":" /\ \A j \in 1..(i - 1) : id[j] # ":"
    IN  SubSeq(id, 1, i - 1)

(***************************************************************************)
(* C28 (as stated): the cluster id passed to the patch step is the         *)
(* detected cluster id exactly when the project identifier has no colon,   *)
(* and is the part before the colon whenever the identifier has one.       *)
(***************************************************************************)
C28_PrefixWheneverColon ==
    call.fn = "patchClusterID" /\ call.done =>
        /\ call.ret = call.clusterID <=> ~HasColon(call.projectID)
        /\ HasColon(call.projectID) => call.ret = BeforeColon(call.projectID)

(***************************************************************************)
(* C28 (amended): the cluster id passed to the patch step is the part of   *)
(* the project identifier before its first colon when the identifier has   *)
(* a colon and that part is not empty, and the detected cluster id         *)
(* otherwise (no colon, or nothing before the first colon).                *)
(***************************************************************************)
C28_PrefixUnlessEmpty ==
    call.fn = "patchClusterID" /\ call.done =>
        /\ call.ret # <<>>
        /\ call.ret =
              IF HasColon(call.projectID)
                 /\ BeforeColon(call.projectID) # <<>>
              THEN BeforeColon(call.projectID)
              ELSE call.clusterID

\* an identifier that starts with a colon got the detected cluster id
C28_Witness ==
    /\ call.fn = "patchClusterID"
    /\ call.done
    /\ call.projectID = <<":", "c", "1">>
    /\ call.ret = localClusterID

\* the last invocation of k listed the projects, found none that the owner
\* names and returned nil, and the namespace is still unassigned
NoMatchOutcome(k) ==
    /\ pc[k] = "idle"
    /\ result[k] = Returned(FALSE)
    /\ LastCall(k, "List", "ok")
    /\ \A i \in 1..Len(listed[k]) :
          ~NameFound(listed[k][i], AppOwnerOf(fetched[k]))
    /\ ProjectIdLabelOf(stored[k]) = <<>>

(***************************************************************************)
(* C29 (as stated): after a no-match outcome for a namespace, once a       *)
(* project that its owner names exists (and goes on existing), the         *)
(* projectId label of the namespace eventually becomes non-empty.          *)
(***************************************************************************)
C29_AssignedOnceProjectExists ==
    \A k \in Keys :
        (NoMatchOutcome(k) /\ OwnerNamesProject(k))
            ~> (ProjectIdLabelOf(stored[k]) # <<>> \/ ~OwnerNamesProject(k))

(***************************************************************************)
(* C29 (amended): after a no-match outcome for a namespace, once a project *)
(* that its owner names exists and the key of the namespace is queued      *)
(* again (by a later write to the namespace), the projectId label of the   *)
(* namespace eventually becomes non-empty, as long as the owner goes on    *)
(* naming an existing project.                                             *)
(***************************************************************************)
C29_AssignedOnLaterEvent ==
    \A k \in Keys :
        (NoMatchOutcome(k) /\ OwnerNamesProject(k) /\ pending[k])
            ~> (ProjectIdLabelOf(stored[k]) # <<>> \/ ~OwnerNamesProject(k))

\* after a no-match outcome a matching project has appeared and a write to
\* the namespace has queued its key again
C29_Witness ==
    \E k \in Keys :
        /\ NoMatchOutcome(k)
        /\ OwnerNamesProject(k)
        /\ pending[k]
        /\ stored[k].rv > fetched[k].rv

\* the number of calls of the operation op the invocation of k has made
CallCount(k, op) ==
    Cardinality({ i \in 1..Len(calls[k]) : calls[k][i].op = op })

ProxyInit ==
    /\ stored = [k \in Keys |->
                    Namespace(L1(appOwnerLabel, sDevOps), EmptyMap, 1)]
    /\ projects = <<prjDevOps>>
    /\ extBudget = 0
    /\ ReconcilerNew
    /\ RegistryNew
    /\ rpc = "init"
    /\ clusters \in InitClusters
    /\ mgrHost \in HostInputs
    /\ clusterBudget = 0
    /\ call = NoCall

ProxySpec == ProxyInit /\ [][LifecycleNext]_vars

(***************************************************************************)
(* C31: every client stored in the registry under the cluster id C is      *)
(* bound to a host that contains the proxy path /k8s/clusters/C of that    *)
(* cluster, whatever the base host of the management client is.            *)
(***************************************************************************)
C31_HostNamesItsCluster ==
    \A id \in DOMAIN clusterClients :
        Contains(clusterClients[id].host, proxyPath \o id)

\* with a base host that has no proxy path and is not empty, the stored
\* clients are bound to the proxy path of their cluster
C31_PlainHostRewritten ==
    mgrHost \in {hostBare, hostSlash} => C31_HostNamesItsCluster

\* the number of places of s at which sub starts
Occurrences(s, sub) ==
    Cardinality({ i \in 1..(Len(s) - Len(sub) + 1) :
                     SubSeq(s, i, i + Len(sub) - 1) = sub })

(***************************************************************************)
(* C32: the rewrite of the host is idempotent.  Applied for the cluster C  *)
(* to a host it returned for C, it returns that host unchanged, and it     *)
(* never adds the prefix /k8s/clusters/ to a host that has it: the         *)
(* rewritten host has the prefix once at most when the base host has.      *)
(***************************************************************************)
C32_RewriteIdempotent ==
    call.fn = "clusterHost" /\ call.done =>
        /\ clusterHost(call.ret, call.clusterID) = call.ret
        /\ Occurrences(call.host, proxyPath) <= 1 =>
              Occurrences(call.ret, proxyPath) <= 1
        /\ Occurrences(call.host, proxyPath) = 1 => call.ret = call.host

\* a host already rewritten for c1 came back unchanged from the rewrite
\* for c1
C32_Witness ==
    /\ call.fn = "clusterHost"
    /\ call.done
    /\ call.clusterID = cidC1
    /\ call.host = clusterHost(hostSlash, cidC1)
    /\ call.ret = call.host
    /\ Occurrences(call.ret, proxyPath) = 1

ProjectIdAnnotationOf(obj) ==
    MapGet(obj.annotations, rancherProjectIDAnnotation)

(***************************************************************************)
(* C34: right after every successful Patch of Reconcile the projectId      *)
(* label and the projectId annotation of the namespace hold the same       *)
(* project identifier, the one the invocation resolved.                    *)
(***************************************************************************)
C34_LabelEqualsAnnotation ==
    \A k \in Keys :
        LastCall(k, "Patch", "ok") =>
            /\ ProjectIdLabelOf(postPatch[k]) = projectID[k]
            /\ ProjectIdAnnotationOf(postPatch[k]) = projectID[k]

\* when the Patch finds the namespace as the Get returned it, the label and
\* the annotation are the resolved identifier after it
C34_EqualWhenUndisturbed ==
    \A k \in Keys :
        LastCall(k, "Patch", "ok") /\ prePatch[k] = fetched[k] =>
            /\ ProjectIdLabelOf(postPatch[k]) = projectID[k]
            /\ ProjectIdAnnotationOf(postPatch[k]) = projectID[k]

\* the value of the clusterId label, "" when the label is absent
ClusterIdLabelOf(obj) == MapGet(obj.labels, rancherClusterIDLabel)

\* the cluster id Reconcile derives for the project identifier id: the part
\* before its first colon, "local" when there is none or it is empty
PrefixOrLocal(id) ==
    IF HasColon(id) /\ BeforeColon(id) # <<>>
    THEN BeforeColon(id)
    ELSE localClusterID

(***************************************************************************)
(* C35: every Patch of Reconcile sets the clusterId label to a non-empty   *)
(* value, the prefix of the project identifier or "local" when that prefix *)
(* is empty, overwriting the clusterId label the namespace had: the value  *)
(* handed to the patch step is never empty, and right after a successful   *)
(* Patch the namespace carries it as its clusterId label.                  *)
(***************************************************************************)
C35_ClusterIdLabelSet ==
    \A k \in Keys :
        /\ pc[k] = "patch" =>
              /\ projectClusterID[k] # <<>>
              /\ projectClusterID[k] = PrefixOrLocal(projectID[k])
        /\ LastCall(k, "Patch", "ok") =>
              /\ projectClusterID[k] # <<>>
              /\ ClusterIdLabelOf(postPatch[k]) = projectClusterID[k]

\* the part of C35 on the patch step itself: the cluster id handed to it is
\* never empty, the object sent carries it as its clusterId label, and the
\* patch applied to the namespace as the Get returned it overwrites the
\* clusterId label that had
C35_ClusterIdNeverOmitted ==
    \A k \in Keys :
        pc[k] = "patch" =>
            /\ projectClusterID[k] # <<>>
            /\ projectClusterID[k] = PrefixOrLocal(projectID[k])
            /\ ClusterIdLabelOf(namespace[k]) = projectClusterID[k]
            /\ ClusterIdLabelOf(ApplyMergePatch(fetched[k], patch[k]))
                  = projectClusterID[k]

\* ------------------------------------------------------------------
\* The whole controller on its own: the refresh goroutine and Reconcile,
\* with failing calls, and no other actor writing

FrameInit ==
    /\ stored \in [Keys -> { Namespace(L1(appOwnerLabel, sDevOps), EmptyMap, 1),
                             Namespace(L1(appOwnerLabel, sGhost), EmptyMap, 1),
                             NoNamespace(1) }]
    /\ projects = <<prjByLabel, prjDevOps>>
    /\ extBudget = 0
    /\ ReconcilerNew
    /\ RegistryNew
    /\ rpc = "init"
    /\ clusters \in InitClusters
    /\ mgrHost = hostSlash
    /\ clusterBudget = 0
    /\ call = NoCall

FrameNext ==
    \/ RefreshInitial
    \/ RefreshOnTick
    \/ Tick
    \/ RefreshListOk
    \/ RefreshListError
    \/ RefreshSkip
    \/ RefreshCreateOk
    \/ RefreshCreateError
    \/ RefreshLock
    \/ RefreshAssign
    \/ RefreshUnlock
    \/ RefreshReturn
    \/ \E k \in Keys :
          \/ Start(k)
          \/ GetClusterClientReturn(k)
          \/ GetOk(k)
          \/ GetNotFound(k)
          \/ GetError(k)
          \/ ListOk(k)
          \/ ListError(k)
          \/ PatchOk(k)
          \/ PatchError(k)

FrameSpec == FrameInit /\ [][FrameNext]_vars

====
